---- MODULE Spec2Model ----
(***************************************************************************)
(* Verification model of the indicator-acquisition and composite-scoring   *)
(* engine of cnav-cl/csv-generator-test.                                   *)
(*                                                                         *)
(*   scripts/generar_json.py       first pass: fetch_world_bank_data,      *)
(*                                 forecast_indicator, the two composite   *)
(*                                 scores, process_country                 *)
(*   scripts/main_generar_json.py  second pass: border pressure and the    *)
(*                                 recomputed instability                  *)
(*                                                                         *)
(* Python floats are modelled as exact rationals [n, d] in lowest terms;   *)
(* round(x, 2) is rounding to the nearest hundredth, ties to even.         *)
(***************************************************************************)
EXTENDS Integers, Sequences, FiniteSets, TLC

VARIABLES
    \* ---- main_generar_json.py, CliodynamicDataProcessor.main ----
    paises_data,        \* content of data_paises.json (the first-pass results), or None
    initial_results,    \* dict country_code -> result record (the records are shared with final_results)
    final_results,      \* list of the country codes whose record was appended
    idx,                \* position of the second-pass loop in country_codes
    border_pressure,    \* local of the loop body: value returned by calculate_border_pressure
    instability_score,  \* local of calculate_turchin_instability: the unrounded score
    main_pc,            \* "idle" | "second_pass" | "saved" | "aborted" | "raised"
    \* ---- generar_json.py, CliodynamicDataProcessor.process_country, lines 754-780 ----
    country_code,       \* argument of process_country
    all_indicators,     \* dict indicator name -> value (the numeric keys)
    deltas,             \* dict indicator name -> delta
    forecasts,          \* dict indicator name -> forecast
    jiang_stability,    \* result of calculate_jiang_stability, with its locals
    turchin_instability,\* result of calculate_turchin_instability
    score_pc,           \* "idle" | "fetched" | "proxies" | "shock" | "jiang" | "done"
    \* ---- generar_json.py, one call of fetch_world_bank_data ----
    fetch_country,      \* argument country_code
    indicator_code,     \* argument indicator_code, as its dot-separated parts
    now,                \* datetime.now() during the call, as [year, day of the year]
    cache,              \* self.cache: dict cache_key -> [data, timestamp]
    cache_lock,         \* self.cache_lock (threading.Lock): "free" or "held" by this thread
    attempt,            \* loop variable of the retry loop
    response,           \* local 'response': None while unbound, else [status_code]
    hist_data,          \* the record returned to process_country, or None
    raised,             \* the exception that left the call as [type], or None
    fetch_error,        \* local 'e': the exception the latest pass caught as [type], or None
    fetch_pc,           \* "idle" | "start" | "attempt" | "store" | "save_cache" | "default"
                        \* | "returned" | "raised" | "blocked"
    \* ---- one call of forecast_indicator (generar_json.py or generate_csv.py) ----
    variant,            \* the file whose forecast_indicator runs
    historical,         \* argument: the (year, value) items in insertion order
    order_idx,          \* position in the list 'orders' of the ARIMA loop
    forecast,           \* the value returned, or None
    forecast_raised,    \* the exception that left the call, or None
    forecast_pc,        \* "idle" | "start" | "arima" | "smoothing" | "moving_average"
                        \* | "returned" | "raised"
    \* ---- generar_json.py, main: the thread pool of the first pass ----
    pool_cache,         \* keys of self.cache that hold a fresh entry
    lock_owner,         \* self.cache_lock: 0 when free, else the worker that holds it
    worker_pc,          \* per worker: "idle" | "want_read" | "reading" | "fetching"
                        \* | "want_write" | "writing" | "save_cache" | "blocked"
    worker_task,        \* per worker: the country of its process_country call, or None
    call_idx,           \* per worker: position in the cache-using calls of process_country
    pending,            \* submitted calls no worker has started
    futures,            \* per country: "pending" | "running" | "result" | "exception"
    pool_results,       \* countries whose future main has taken from as_completed
    cache_flushes,      \* number of times the cache file was written
    pool_pc,            \* main: "idle" | "collecting" | "saved"
    \* ---- generar_json.py: a run that starts with a cache file ----
    provider_series,    \* the (year, value) points the provider serves, in its order
    cache_file,         \* the entry of data/cache.json for the key, or None
    rerun_cache,        \* self.cache[cache_key]['data'] of the run, or None
    rerun_result,       \* what fetch_world_bank_data returned, or None
    rerun_pc,           \* "idle" | "start" | "loaded" | "served" | "resolved" | "blocked"
    \* ---- obtiene_historical_data_2020_2025.py: one cell of the dataset ----
    dataset_provider,   \* "world_bank" | "imf"
    dataset_country,    \* the country of the cell
    dataset_code,       \* the indicator code of the cell, as its dot-separated parts
    retry_attempt,      \* loop variable of fetch_with_retry
    fetched,            \* what fetch_with_retry returned: the decoded body, or None
    historical_data,    \* what fetch_*_historical returned as [dict], or [raise]
    dataset_cell,       \* historical_data[provider][country][indicator], or None
    dataset_pc,         \* "idle" | "request" | "parse" | "store" | "stored"
    \* ---- generar_json.py: one call of get_gdelt_shock_factor ----
    shock_country,      \* country_code of the call
    force_refresh,      \* the parameter of the call
    gdelt_cache,        \* self.cache['gdelt_' + country_code] as [data, age], or None
    gdelt_lock,         \* self.cache_lock: "free" | "held"
    name_idx,           \* position in country_names of the outer loop
    gdelt_attempt,      \* loop variable of the retry loop
    gdelt_response,     \* the local 'response', bound by the last answered request
    total_events,       \* the local 'total_events', or None while unbound
    gdelt_factor,       \* the local 'shock_factor'
    shock_returned,     \* the value the call returned, or None
    shock_raised,       \* the exception that left the call, or None
    shock_pc,           \* "idle" | "start" | "request" | "write" | "save_cache" | "blocked" | "returned" | "raised"
    \* ---- eudaimonia_predictor.py: one run of generate_indices_json ----
    eud_country_codes,  \* self.country_codes
    has_fresh_data_source, \* whether an API key was given
    historical_cpi,     \* what _fetch_historical_cpi returned: name -> score
    historical_gpi,     \* what _fetch_historical_gpi returned: name -> score
    existing_results,   \* 'results' of the output file as loaded at line 273
    all_data,           \* the dict of line 273 as the loop changes it
    eud_idx,            \* position of the loop in country_codes
    fresh_fetched,      \* codes for which _fetch_fresh_media_articles was called
    output_file,        \* 'results' of the file written at line 385, or None
    eud_raised,         \* the exception that left generate_indices_json, or None
    eud_pc              \* "idle" | "loop" | "saved" | "raised"

propVars == <<paises_data, initial_results, final_results, idx,
              border_pressure, instability_score, main_pc>>

scoreVars == <<country_code, all_indicators, deltas, forecasts,
               jiang_stability, turchin_instability, score_pc>>

fetchVars == <<fetch_country, indicator_code, now, cache, cache_lock, attempt,
               response, hist_data, raised, fetch_error, fetch_pc>>

forecastVars == <<variant, historical, order_idx, forecast, forecast_raised, forecast_pc>>

poolVars == <<pool_cache, lock_owner, worker_pc, worker_task, call_idx, pending,
              futures, pool_results, cache_flushes, pool_pc>>

rerunVars == <<provider_series, cache_file, rerun_cache, rerun_result, rerun_pc>>

datasetVars == <<dataset_provider, dataset_country, dataset_code, retry_attempt, fetched,
                 historical_data, dataset_cell, dataset_pc>>

shockVars == <<shock_country, force_refresh, gdelt_cache, gdelt_lock, name_idx, gdelt_attempt,
               gdelt_response, total_events, gdelt_factor, shock_returned, shock_raised, shock_pc>>

eudVars == <<eud_country_codes, has_fresh_data_source, historical_cpi, historical_gpi,
             existing_results, all_data, eud_idx, fresh_fetched, output_file, eud_raised, eud_pc>>

vars == <<propVars, scoreVars, fetchVars, forecastVars, poolVars, rerunVars, datasetVars,
          shockVars, eudVars>>

\* what the actions of one part leave alone
outsideProp == <<scoreVars, fetchVars, forecastVars, poolVars, rerunVars, datasetVars,
    shockVars, eudVars>>
outsideScore == <<propVars, fetchVars, forecastVars, poolVars, rerunVars, datasetVars,
    shockVars, eudVars>>
outsideFetch == <<propVars, scoreVars, forecastVars, poolVars, rerunVars, datasetVars,
    shockVars, eudVars>>
outsideForecast == <<propVars, scoreVars, fetchVars, poolVars, rerunVars, datasetVars,
    shockVars, eudVars>>
outsidePool == <<propVars, scoreVars, fetchVars, forecastVars, rerunVars, datasetVars,
    shockVars, eudVars>>
outsideRerun == <<propVars, scoreVars, fetchVars, forecastVars, poolVars, datasetVars,
    shockVars, eudVars>>
outsideDataset == <<propVars, scoreVars, fetchVars, forecastVars, poolVars, rerunVars,
    shockVars, eudVars>>
outsideShock == <<propVars, scoreVars, fetchVars, forecastVars, poolVars, rerunVars,
    datasetVars, eudVars>>
outsideEud == <<propVars, scoreVars, fetchVars, forecastVars, poolVars, rerunVars,
    datasetVars, shockVars>>

-----------------------------------------------------------------------------
(* Exact rational arithmetic standing for Python float arithmetic.          *)

RECURSIVE GCD(_, _)
GCD(a, b) == IF b = 0 THEN a ELSE GCD(b, a % b)

Abs(x) == IF x < 0 THEN -x ELSE x

Rat(n, d) ==
    LET s == IF d < 0 THEN -1 ELSE 1
        g == GCD(Abs(n), Abs(d))
    IN  [n |-> (s * n) \div g, d |-> (s * d) \div g]

Zero == [n |-> 0, d |-> 1]
One  == [n |-> 1, d |-> 1]

RInt(k) == [n |-> k, d |-> 1]

RAdd(a, b) ==
    LET g == GCD(a.d, b.d)
    IN  Rat(a.n * (b.d \div g) + b.n * (a.d \div g), a.d * (b.d \div g))

RNeg(a) == [n |-> -a.n, d |-> a.d]

RSub(a, b) == RAdd(a, RNeg(b))

RMul(a, b) ==
    LET g1 == GCD(Abs(a.n), b.d)
        g2 == GCD(Abs(b.n), a.d)
    IN  Rat((a.n \div g1) * (b.n \div g2), (a.d \div g2) * (b.d \div g1))

RDiv(a, b) == RMul(a, Rat(b.d, b.n))

RLt(a, b) == a.n * b.d < b.n * a.d
RLe(a, b) == a.n * b.d <= b.n * a.d
RGt(a, b) == RLt(b, a)
RGe(a, b) == RLe(b, a)

RMin(a, b) == IF RLt(b, a) THEN b ELSE a
RMax(a, b) == IF RGt(b, a) THEN b ELSE a

\* nearest integer to n/d (d > 0), ties to the even integer
RoundHalfEven(n, d) ==
    LET q == n \div d
        r == n % d
    IN  IF 2 * r < d THEN q
        ELSE IF 2 * r > d THEN q + 1
        ELSE IF q % 2 = 0 THEN q ELSE q + 1

\* Python round(x, 2)
Round2(x) ==
    LET g == GCD(100, x.d)
    IN  Rat(RoundHalfEven(x.n * (100 \div g), x.d \div g), 100)

RECURSIVE SumSeq(_)
SumSeq(s) == IF s = <<>> THEN Zero ELSE RAdd(Head(s), SumSeq(Tail(s)))

IsRat(x) == x \in [n : Int, d : Nat \ {0}]

-----------------------------------------------------------------------------
(* Values shared by the parts of the model, and the state of a part that    *)
(* is not running.                                                          *)

\* Python None, and the value of a local that is not bound yet
None == [none |-> TRUE]

\* dict.get(key, default)
GetOr(dict, key, default) == IF key \in DOMAIN dict THEN dict[key] ELSE default

PropIdle ==
    /\ paises_data = None
    /\ initial_results = <<>>
    /\ final_results = <<>>
    /\ idx = 1
    /\ border_pressure = None
    /\ instability_score = None
    /\ main_pc = "idle"

ScoreIdle ==
    /\ country_code = None
    /\ all_indicators = <<>>
    /\ deltas = <<>>
    /\ forecasts = <<>>
    /\ jiang_stability = None
    /\ turchin_instability = None
    /\ score_pc = "idle"

FetchIdle ==
    /\ fetch_country = None
    /\ indicator_code = None
    /\ now = None
    /\ cache = <<>>
    /\ cache_lock = "free"
    /\ attempt = 0
    /\ response = None
    /\ hist_data = None
    /\ raised = None
    /\ fetch_error = None
    /\ fetch_pc = "idle"

ForecastIdle ==
    /\ variant = None
    /\ historical = <<>>
    /\ order_idx = 1
    /\ forecast = None
    /\ forecast_raised = None
    /\ forecast_pc = "idle"

PoolIdle ==
    /\ pool_cache = {}
    /\ lock_owner = 0
    /\ worker_pc = <<>>
    /\ worker_task = <<>>
    /\ call_idx = <<>>
    /\ pending = <<>>
    /\ futures = <<>>
    /\ pool_results = <<>>
    /\ cache_flushes = 0
    /\ pool_pc = "idle"

RerunIdle ==
    /\ provider_series = <<>>
    /\ cache_file = None
    /\ rerun_cache = None
    /\ rerun_result = None
    /\ rerun_pc = "idle"

DatasetIdle ==
    /\ dataset_provider = None
    /\ dataset_country = None
    /\ dataset_code = None
    /\ retry_attempt = 0
    /\ fetched = None
    /\ historical_data = None
    /\ dataset_cell = None
    /\ dataset_pc = "idle"

ShockIdle ==
    /\ shock_country = None
    /\ force_refresh = FALSE
    /\ gdelt_cache = None
    /\ gdelt_lock = "free"
    /\ name_idx = 0
    /\ gdelt_attempt = 0
    /\ gdelt_response = None
    /\ total_events = None
    /\ gdelt_factor = None
    /\ shock_returned = None
    /\ shock_raised = None
    /\ shock_pc = "idle"

EudIdle ==
    /\ eud_country_codes = <<>>
    /\ has_fresh_data_source = FALSE
    /\ historical_cpi = <<>>
    /\ historical_gpi = <<>>
    /\ existing_results = <<>>
    /\ all_data = <<>>
    /\ eud_idx = 0
    /\ fresh_fetched = {}
    /\ output_file = None
    /\ eud_raised = None
    /\ eud_pc = "idle"

-----------------------------------------------------------------------------
(* main_generar_json.py: the propagation (second) pass.                     *)

\* Number of entries of country_codes that are modelled.
NCountries == 5

\* country_codes, restricted to six of its entries, in the order of the source
ModelledCountries == <<"USA", "JPN", "CAN", "AUS", "MEX", "KOR">>

country_codes ==
    SubSeq(ModelledCountries, 1,
           IF NCountries < Len(ModelledCountries) THEN NCountries ELSE Len(ModelledCountries))

\* border_mapping, the entries of the modelled countries ("AUS" has no entry)
border_mapping ==
    [c \in {"USA", "CAN", "MEX", "JPN", "KOR"} |->
        CASE c = "USA" -> <<"CAN", "MEX">>
          [] c = "CAN" -> <<"USA">>
          [] c = "MEX" -> <<"USA", "GTM", "BLZ">>
          [] c = "JPN" -> <<>>
          [] c = "KOR" -> <<"PRK", "CHN">>]

\* the indicators read by the second pass; percent scale for the first two
LowProfile ==
    [youth_unemployment |-> RInt(10), gini_coefficient |-> RInt(30),
     elite_overproduction |-> Rat(2, 100), social_polarization |-> Rat(30, 100),
     institutional_distrust |-> Rat(30, 100)]

MidProfile ==
    [youth_unemployment |-> RInt(30), gini_coefficient |-> RInt(45),
     elite_overproduction |-> Rat(5, 100), social_polarization |-> Rat(50, 100),
     institutional_distrust |-> Rat(60, 100)]

MaxProfile ==
    [youth_unemployment |-> RInt(100), gini_coefficient |-> RInt(100),
     elite_overproduction |-> One, social_polarization |-> One,
     institutional_distrust |-> One]

\* first-pass instability (two decimals) and indicators of the records of the file
FirstPassInputs ==
    { <<Rat(40, 100), LowProfile>>, <<Rat(80, 100), LowProfile>>,
      <<Rat(40, 100), MidProfile>>, <<Rat(80, 100), MaxProfile>> }

FirstPassStatus(v) ==
    IF RGe(v, Rat(5, 10)) THEN "critical"
    ELSE IF RGe(v, Rat(35, 100)) THEN "alert" ELSE "stable"

FirstPassRecords ==
    { [inestabilidad_turchin |-> [status |-> FirstPassStatus(x[1]), valor |-> x[1]],
       indicators |-> x[2],
       border_pressure |-> None] : x \in FirstPassInputs }

\* dict.get(key)
Get(dict, key) == GetOr(dict, key, None)

\* the keys of 'factors' and 'weights' of the second pass, lines 234-253
main_factor_names ==
    <<"youth_unemployment", "gini_coefficient", "elite_overproduction",
      "social_polarization", "institutional_distrust", "border_pressure">>

main_weights ==
    [youth_unemployment |-> Rat(25, 100),
     gini_coefficient |-> Rat(25, 100),
     elite_overproduction |-> Rat(2, 10),
     social_polarization |-> Rat(15, 100),
     institutional_distrust |-> Rat(15, 100),
     border_pressure |-> Rat(1, 10)]

main_calculate_turchin_instability(indicators, bp) ==
    LET factors == [youth_unemployment |-> RDiv(indicators.youth_unemployment, RInt(100)),
                    gini_coefficient |-> RDiv(indicators.gini_coefficient, RInt(100)),
                    elite_overproduction |-> indicators.elite_overproduction,
                    social_polarization |-> indicators.social_polarization,
                    institutional_distrust |-> indicators.institutional_distrust,
                    border_pressure |-> bp]
        weights == main_weights
        score == SumSeq(<<RMul(factors.youth_unemployment, weights.youth_unemployment),
                          RMul(factors.gini_coefficient, weights.gini_coefficient),
                          RMul(factors.elite_overproduction, weights.elite_overproduction),
                          RMul(factors.social_polarization, weights.social_polarization),
                          RMul(factors.institutional_distrust, weights.institutional_distrust),
                          RMul(factors.border_pressure, weights.border_pressure)>>)
        status == IF RGt(score, Rat(4, 10)) THEN "at_risk"
                  ELSE IF RGt(score, Rat(6, 10)) THEN "fragile"
                  ELSE "stable"
    IN  [status |-> status, valor |-> Round2(score), score |-> score]

Borders(cc) ==
    IF cc \in DOMAIN border_mapping THEN border_mapping[cc] ELSE <<>>

TotalPressure_plain(borders, all_country_results) ==
    SumSeq([i \in 1..Len(borders) |->
              IF Get(all_country_results, borders[i]) # None
              THEN all_country_results[borders[i]].inestabilidad_turchin.valor
              ELSE Zero])

\* the loop of calculate_border_pressure: 20% of the instability of every
\* neighbour that has a record
TotalPressure(borders, all_country_results) ==
    SumSeq([i \in 1..Len(borders) |->
              IF Get(all_country_results, borders[i]) # None
              THEN RMul(all_country_results[borders[i]].inestabilidad_turchin.valor, Rat(2, 10))
              ELSE Zero])

calculate_border_pressure_nonzero(cc, all_country_results) ==
    LET borders == Borders(cc)
    IN  IF borders = <<>> THEN Rat(5, 100)
        ELSE RDiv(TotalPressure(borders, all_country_results), RInt(Len(borders)))

calculate_border_pressure(cc, all_country_results) ==
    LET borders == Borders(cc)
    IN  IF borders = <<>> THEN Zero
        ELSE RDiv(TotalPressure(borders, all_country_results), RInt(Len(borders)))

CountrySet == {country_codes[i] : i \in 1..Len(country_codes)}

\* a key of gdelt_country_mapping of generar_json.py (line 110) that is not a
\* key of the mapping of main_generar_json.py; the first pass processes it
FirstPassOnlyCountries == {"GTM"}

\* data_paises.json: 'results' holds a record for any subset of the countries
\* of the first pass
FileContents ==
    {[results |-> g] :
        g \in UNION {[S -> FirstPassRecords] :
                        S \in SUBSET (CountrySet \cup FirstPassOnlyCountries)}}

PropInit ==
    /\ ScoreIdle /\ FetchIdle /\ ForecastIdle /\ PoolIdle /\ RerunIdle /\ DatasetIdle /\ ShockIdle /\ EudIdle
    /\ paises_data \in {None} \cup FileContents
    /\ initial_results = <<>>
    /\ final_results = <<>>
    /\ idx = 1
    /\ border_pressure = None
    /\ instability_score = None
    /\ main_pc = "idle"

\* main, lines 302-309: the file is read; without it the run ends
LoadResults ==
    /\ main_pc = "idle"
    /\ IF paises_data = None \/ "results" \notin DOMAIN paises_data
       THEN /\ main_pc' = "aborted"
            /\ UNCHANGED initial_results
       ELSE /\ main_pc' = "second_pass"
            /\ initial_results' = paises_data.results
    /\ UNCHANGED <<paises_data, final_results, idx, border_pressure, instability_score>>
    /\ UNCHANGED outsideProp

\* the KeyError of line 277 (a neighbour's record without
\* 'inestabilidad_turchin') or of line 319 (the record without 'indicators')
SecondPassRaises(cc, all_country_results) ==
    \/ \E i \in 1..Len(Borders(cc)) :
          /\ Borders(cc)[i] \in DOMAIN all_country_results
          /\ "inestabilidad_turchin" \notin DOMAIN all_country_results[Borders(cc)[i]]
    \/ "indicators" \notin DOMAIN all_country_results[cc]

\* main, lines 314-326: one iteration of the second-pass loop.  result is the
\* record held by initial_results, so the assignments change that dict too.
\* Nothing in main catches an exception of the loop body.
SecondPassStep ==
    /\ main_pc = "second_pass"
    /\ idx <= Len(country_codes)
    /\ LET cc == country_codes[idx]
       IN  IF cc \notin DOMAIN initial_results
           THEN /\ idx' = idx + 1
                /\ UNCHANGED <<initial_results, final_results, border_pressure,
                               instability_score, main_pc>>
           ELSE IF SecondPassRaises(cc, initial_results)
           THEN /\ main_pc' = "raised"
                /\ UNCHANGED <<initial_results, final_results, border_pressure,
                               instability_score, idx>>
           ELSE LET result == initial_results[cc]
                    bp == calculate_border_pressure(cc, initial_results)
                    final_instability == main_calculate_turchin_instability(result.indicators, bp)
                IN  /\ initial_results' =
                         [initial_results EXCEPT
                            ![cc].inestabilidad_turchin =
                                [status |-> final_instability.status,
                                 valor |-> final_instability.valor],
                            ![cc].border_pressure = Round2(bp)]
                    /\ final_results' = Append(final_results, cc)
                    /\ border_pressure' = bp
                    /\ instability_score' = final_instability.score
                    /\ idx' = idx + 1
                    /\ UNCHANGED main_pc
    /\ UNCHANGED paises_data
    /\ UNCHANGED outsideProp

\* main, line 328: save_to_json(final_results)
SaveResults ==
    /\ main_pc = "second_pass"
    /\ idx > Len(country_codes)
    /\ main_pc' = "saved"
    /\ UNCHANGED <<paises_data, initial_results, final_results, idx,
                   border_pressure, instability_score>>
    /\ UNCHANGED outsideProp

PropNext == LoadResults \/ SecondPassStep \/ SaveResults

SpecProp == PropInit /\ [][PropNext]_vars

-----------------------------------------------------------------------------
(* Properties of the propagation pass.                                      *)

Last(seq) == seq[Len(seq)]

\* the country whose record the loop body handled last; border_pressure and
\* instability_score are the locals of that iteration
LastEntity == Last(final_results)

HasResult(c) == c \in DOMAIN initial_results

AllNeighboursHaveResult(c) ==
    \A i \in 1..Len(Borders(c)) : HasResult(Borders(c)[i])

Valor(results, c) == results[c].inestabilidad_turchin.valor

MeanValor(results, neighbours) ==
    RDiv(SumSeq([i \in 1..Len(neighbours) |-> Valor(results, neighbours[i])]),
         RInt(Len(neighbours)))

\* the five internal terms of the second-pass formula, border term left out
InternalScore(ind) ==
    SumSeq(<<RMul(Rat(25, 100), RDiv(ind.youth_unemployment, RInt(100))),
             RMul(Rat(25, 100), RDiv(ind.gini_coefficient, RInt(100))),
             RMul(Rat(2, 10), ind.elite_overproduction),
             RMul(Rat(15, 100), ind.social_polarization),
             RMul(Rat(15, 100), ind.institutional_distrust)>>)

border_weight == Rat(1, 10)

Scenario_Y08_Z04 ==
    /\ final_results = <<"USA">>
    /\ HasResult("CAN") /\ Valor(initial_results, "CAN") = Rat(8, 10)
    /\ HasResult("MEX") /\ Valor(initial_results, "MEX") = Rat(4, 10)

C4_FirstPassOnly ==
    final_results # <<>> =>
        border_pressure = calculate_border_pressure(LastEntity, paises_data.results)

PresentBorders(c) == SelectSeq(Borders(c), HasResult)

\* C6 (as stated): a listed neighbour without a record is left out of both
\* the sum and the count, so the pressure is the one the entity has over
\* exactly the neighbours that have a record.
C6_SkippedNotZero ==
    final_results # <<>> =>
        border_pressure =
            IF PresentBorders(LastEntity) = <<>> THEN Zero
            ELSE RDiv(TotalPressure(PresentBorders(LastEntity), initial_results),
                      RInt(Len(PresentBorders(LastEntity))))

\* C7 (as stated): the instability reported for an entity is within [0,1],
\* after the first pass and after the propagation pass.
C7_InstabilityInUnitInterval ==
    \A c \in DOMAIN initial_results :
        /\ RGe(Valor(initial_results, c), Zero)
        /\ RLe(Valor(initial_results, c), One)

-----------------------------------------------------------------------------
(* generar_json.py: the configuration tables of CliodynamicDataProcessor.   *)

\* keys of default_indicator_values, as the list of their dot-separated parts
KEY_GINI == <<"GINI">>
KEY_1524 == <<"1524", "ZS">>
KEY_TOTL == <<"TOTL", "ZG">>
KEY_NEET == <<"NEET", "ZS">>
KEY_CUAT == <<"CUAT", "BA", "ZS">>
KEY_PCAP == <<"PCAP", "CD">>
KEY_SUIC == <<"SUIC", "P5">>
KEY_EST  == <<"EST">>

DefaultEntry(dflt, chn, rus) == [default |-> dflt, CHN |-> chn, RUS |-> rus]

default_indicator_values ==
    [k \in {KEY_GINI, KEY_1524, KEY_TOTL, KEY_NEET, KEY_CUAT, KEY_PCAP, KEY_SUIC, KEY_EST} |->
        CASE k = KEY_GINI -> DefaultEntry(RInt(40), RInt(38), RInt(36))
          [] k = KEY_1524 -> DefaultEntry(RInt(20), RInt(15), RInt(16))
          [] k = KEY_TOTL -> DefaultEntry(RInt(5), Rat(25, 10), RInt(6))
          [] k = KEY_NEET -> DefaultEntry(RInt(12), RInt(10), RInt(11))
          [] k = KEY_CUAT -> DefaultEntry(RInt(18), RInt(25), RInt(30))
          [] k = KEY_PCAP -> DefaultEntry(RInt(1000), RInt(12500), RInt(10000))
          [] k = KEY_SUIC -> DefaultEntry(RInt(10), RInt(8), RInt(12))
          [] k = KEY_EST  -> DefaultEntry(Zero, Rat(5, 10), Rat(-2, 10))]

\* self.default_indicator_values.get(key, {}).get(cc, <same>.get('default', fallback))
DefaultLookup(key, cc, fallback) ==
    LET entry == GetOr(default_indicator_values, key, <<>>)
    IN  GetOr(entry, cc, GetOr(entry, "default", fallback))

Threshold(alert, critical, palert, pcritical) ==
    [alert |-> alert, critical |-> critical,
     points |-> [alert |-> palert, critical |-> pcritical]]

ThresholdNames ==
    <<"neet_ratio", "gini_coefficient", "youth_unemployment", "inflation_annual",
      "social_polarization", "institutional_distrust", "suicide_rate",
      "wealth_concentration", "education_gap", "elite_overproduction",
      "estabilidad_jiang", "inestabilidad_turchin">>

thresholds ==
    [k \in {ThresholdNames[i] : i \in 1..Len(ThresholdNames)} |->
        CASE k = "neet_ratio"             -> Threshold(RInt(20), RInt(25), Rat(-15, 10), Rat(-25, 10))
          [] k = "gini_coefficient"       -> Threshold(RInt(40), RInt(45), Rat(-15, 10), RInt(-3))
          [] k = "youth_unemployment"     -> Threshold(RInt(25), RInt(30), RInt(-1), RInt(-2))
          [] k = "inflation_annual"       -> Threshold(RInt(10), RInt(15), RInt(-1), RInt(-2))
          [] k = "social_polarization"    -> Threshold(Rat(60, 100), Rat(75, 100), Rat(-15, 10), RInt(-3))
          [] k = "institutional_distrust" -> Threshold(Rat(60, 100), Rat(75, 100), Rat(-15, 10), RInt(-3))
          [] k = "suicide_rate"           -> Threshold(RInt(10), RInt(15), RInt(-1), RInt(-2))
          [] k = "wealth_concentration"   -> Threshold(Rat(45, 100), Rat(55, 100), Rat(-15, 10), RInt(-3))
          [] k = "education_gap"          -> Threshold(Rat(5, 100), Rat(1, 10), RInt(-1), Rat(-25, 10))
          [] k = "elite_overproduction"   -> Threshold(Rat(5, 100), Rat(1, 10), Rat(-15, 10), RInt(-3))
          [] k = "estabilidad_jiang"      -> Threshold(RInt(5), RInt(4), Zero, Zero)
          [] k = "inestabilidad_turchin"  -> Threshold(Rat(35, 100), Rat(5, 10), Zero, Zero)]

\* high_risk_countries, the entries of three countries
high_risk_countries ==
    [c \in {"SDN", "UKR", "MEX"} |->
        CASE c = "SDN" -> Rat(1093, 10)
          [] c = "UKR" -> RInt(85)
          [] c = "MEX" -> RInt(75)]

\* crisis_forecasts, the entries of two countries
crisis_forecasts ==
    [c \in {"SDN", "UKR"} |->
        CASE c = "SDN" -> Rat(4, 10)
          [] c = "UKR" -> Rat(25, 100)]

RAbs(x) == [n |-> Abs(x.n), d |-> x.d]

\* str.isdigit() and int(str) on a string given as its characters
DigitOf ==
    [c \in {"0", "1", "2", "3", "4", "5", "6", "7", "8", "9"} |->
        CASE c = "0" -> 0 [] c = "1" -> 1 [] c = "2" -> 2 [] c = "3" -> 3 [] c = "4" -> 4
          [] c = "5" -> 5 [] c = "6" -> 6 [] c = "7" -> 7 [] c = "8" -> 8 [] c = "9" -> 9]

isdigit(text) == Len(text) > 0 /\ \A i \in 1..Len(text) : text[i] \in DOMAIN DigitOf

RECURSIVE ParseInt(_)
ParseInt(text) ==
    IF text = <<>> THEN 0
    ELSE 10 * ParseInt(SubSeq(text, 1, Len(text) - 1)) + DigitOf[text[Len(text)]]

safe_int(value, default) ==
    IF value # None /\ "text" \in DOMAIN value /\ isdigit(value.text)
    THEN ParseInt(value.text) ELSE default

\* float(value) unless value is None or cannot be converted
safe_float(value, default) ==
    IF value = None THEN default
    ELSE IF "text" \in DOMAIN value
         THEN IF isdigit(value.text) THEN RInt(ParseInt(value.text)) ELSE default
         ELSE value

\* np.log1p(x) / 10 to two decimals, for the sampled GDP-per-capita values
Log1pOver10(x) ==
    CASE x = RInt(1000)  -> Rat(69, 100)
      [] x = RInt(12500) -> Rat(94, 100)
      [] OTHER           -> Zero

-----------------------------------------------------------------------------
(* generar_json.py: derived indicators and the two composite scores.        *)

convert_effectiveness_to_distrust(effectiveness) ==
    IF effectiveness = None THEN Rat(5, 10)
    ELSE LET normalized_effectiveness ==
                 RDiv(RSub(effectiveness, Rat(-25, 10)), RSub(Rat(25, 10), Rat(-25, 10)))
             distrust == RSub(One, normalized_effectiveness)
         IN  Round2(RMax(Rat(1, 10), RMin(Rat(9, 10), distrust)))

calculate_proxies(ind) ==
    LET wealth_concentration ==
            RDiv(safe_float(GetOr(ind, "gini_coefficient", default_indicator_values[KEY_GINI].default),
                            default_indicator_values[KEY_GINI].default), RInt(100))
        tertiary_education ==
            RDiv(safe_float(GetOr(ind, "tertiary_education", default_indicator_values[KEY_CUAT].default),
                            default_indicator_values[KEY_CUAT].default), RInt(100))
        youth_unemployment ==
            RDiv(safe_float(GetOr(ind, "youth_unemployment", default_indicator_values[KEY_1524].default),
                            default_indicator_values[KEY_1524].default), RInt(100))
        education_gap == RMul(tertiary_education, youth_unemployment)
        elite_overproduction == RMul(tertiary_education, youth_unemployment)
    IN  <<wealth_concentration, education_gap, elite_overproduction>>

calculate_social_indicators(cc, ind) ==
    LET gov_effectiveness ==
            GetOr(ind, "government_effectiveness", DefaultLookup(KEY_EST, cc, Zero))
        institutional_distrust == convert_effectiveness_to_distrust(gov_effectiveness)
        gini_normalized ==
            RDiv(safe_float(GetOr(ind, "gini_coefficient", DefaultLookup(KEY_GINI, cc, Zero)),
                            DefaultLookup(KEY_GINI, cc, Zero)), RInt(100))
        neet_ratio ==
            RDiv(safe_float(GetOr(ind, "neet_ratio", DefaultLookup(KEY_NEET, cc, Zero)),
                            DefaultLookup(KEY_NEET, cc, Zero)), RInt(100))
        polarization ==
            SumSeq(<<RMul(gini_normalized, Rat(4, 10)),
                     RMul(institutional_distrust, Rat(4, 10)),
                     RMul(neet_ratio, Rat(2, 10))>>)
    IN  <<Round2(RMin(Rat(9, 10), RMax(Rat(3, 10), polarization))), institutional_distrust>>

\* the normalisation of one term of calculate_turchin_instability, lines 568-575
TurchinNorm(indicator, value) ==
    IF indicator = "elite_overproduction" THEN RMin(One, RDiv(value, Rat(15, 100)))
    ELSE IF indicator = "wealth_concentration" THEN RMin(One, RDiv(value, Rat(7, 10)))
    ELSE IF indicator \in {"social_polarization", "institutional_distrust"} THEN RMin(One, value)
    ELSE RMin(One, RDiv(value, RInt(100)))

TurchinNames ==
    <<"elite_overproduction", "wealth_concentration", "institutional_distrust",
      "social_polarization", "youth_unemployment", "neet_ratio">>

TurchinWeights ==
    [k \in {TurchinNames[i] : i \in 1..Len(TurchinNames)} |->
        CASE k = "elite_overproduction"   -> Rat(25, 100)
          [] k = "wealth_concentration"   -> Rat(20, 100)
          [] k = "institutional_distrust" -> Rat(18, 100)
          [] k = "social_polarization"    -> Rat(15, 100)
          [] k = "youth_unemployment"     -> Rat(12, 100)
          [] k = "neet_ratio"             -> Rat(10, 100)]

\* the tiers with a score equal to a threshold left in the lower tier
TurchinStatus_strict(final_score) ==
    IF RGt(final_score, thresholds["inestabilidad_turchin"].critical) THEN "critical"
    ELSE IF RGt(final_score, thresholds["inestabilidad_turchin"].alert) THEN "alert"
    ELSE "stable"

\* the status tiers of the first-pass instability, lines 593-598
TurchinStatus(final_score) ==
    IF RGe(final_score, thresholds["inestabilidad_turchin"].critical) THEN "critical"
    ELSE IF RGe(final_score, thresholds["inestabilidad_turchin"].alert) THEN "alert"
    ELSE "stable"

calculate_turchin_instability(indicators, dlt, fct) ==
    LET weighted ==
            SumSeq([i \in 1..Len(TurchinNames) |->
                      LET value == GetOr(indicators, TurchinNames[i], None)
                      IN  IF value # None
                          THEN RMul(TurchinWeights[TurchinNames[i]],
                                    TurchinNorm(TurchinNames[i], safe_float(value, Zero)))
                          ELSE Zero])
        delta_adjust ==
            RMul(SumSeq([i \in 1..Len(TurchinNames) |->
                           LET d == safe_float(GetOr(dlt, TurchinNames[i], Zero), Zero)
                           IN  IF RGt(d, Zero) THEN d ELSE Zero]),
                 Rat(1, 10))
        forecast_adjust ==
            SumSeq([i \in 1..Len(TurchinNames) |->
                      LET value == GetOr(indicators, TurchinNames[i], None)
                      IN  IF value # None
                          THEN LET v == safe_float(value, Zero)
                                   forecast_val == safe_float(GetOr(fct, TurchinNames[i], v), v)
                               IN  RMul(RMax(Zero, RSub(forecast_val, v)), Rat(5, 100))
                          ELSE Zero])
        score == SumSeq(<<weighted, delta_adjust, forecast_adjust>>)
        final_score == Round2(RMin(One, RMax(Zero, score)))
    IN  [status |-> TurchinStatus(final_score), valor |-> final_score]

PercentNames ==
    {"gini_coefficient", "neet_ratio", "youth_unemployment", "inflation_annual", "suicide_rate"}

UnitNames ==
    {"social_polarization", "institutional_distrust", "wealth_concentration",
     "education_gap", "elite_overproduction"}

\* calculate_jiang_stability, lines 602-618
NormalizedValues(indicators) ==
    [k \in DOMAIN indicators |->
        LET value == safe_float(indicators[k], Rat(5, 10))
        IN  IF k \in PercentNames THEN RDiv(value, RInt(100))
            ELSE IF k \in UnitNames THEN value
            ELSE RDiv(value, RInt(10000))]

groups ==
    [economic    |-> <<"gini_coefficient", "inflation_annual", "gdppc", "wealth_concentration">>,
     social      |-> <<"social_polarization", "institutional_distrust", "suicide_rate">>,
     demographic |-> <<"youth_unemployment", "neet_ratio", "education_gap", "elite_overproduction">>]

GroupWeights == [economic |-> Rat(4, 10), social |-> Rat(35, 100), demographic |-> Rat(25, 100)]

GroupScore(normalized_values, ind_list) ==
    RDiv(SumSeq([i \in 1..Len(ind_list) |-> GetOr(normalized_values, ind_list[i], Rat(5, 10))]),
         RInt(Len(ind_list)))

\* calculate_jiang_stability, lines 627-644
BaseScore(indicators, cc) ==
    LET gdppc == safe_float(GetOr(indicators, "gdppc", DefaultLookup(KEY_PCAP, cc, Zero)),
                            default_indicator_values[KEY_PCAP].default)
        gov_effectiveness ==
            safe_float(GetOr(indicators, "government_effectiveness", DefaultLookup(KEY_EST, cc, Zero)),
                       default_indicator_values[KEY_EST].default)
        raw == SumSeq(<<RInt(6), RMin(RInt(4), Log1pOver10(gdppc)),
                        RMul(gov_effectiveness, Rat(5, 10))>>)
    IN  RMin(RInt(10), RMax(One, raw))

\* calculate_jiang_stability, lines 646-659: status of one indicator of the thresholds table
RiskStatus(value, threshold) ==
    IF RGe(value, threshold.critical) THEN "critical"
    ELSE IF RGe(value, threshold.alert) THEN "alert"
    ELSE "stable"

ThresholdRisk(indicators, normalized_values) ==
    SumSeq([i \in 1..Len(ThresholdNames) |->
              LET indicator == ThresholdNames[i]
                  st == RiskStatus(GetOr(normalized_values, indicator, Rat(5, 10)), thresholds[indicator])
              IN  IF indicator \notin DOMAIN indicators THEN Zero
                  ELSE IF st = "stable" THEN Zero
                  ELSE RAbs(thresholds[indicator].points[st])])

\* calculate_jiang_stability, lines 670-678
GeoRisk(cc, high_risk) ==
    IF cc \in DOMAIN high_risk
    THEN LET score == high_risk[cc]
             tier == IF RGt(score, RInt(100)) THEN Rat(5, 10)
                     ELSE IF RGt(score, RInt(90)) THEN Rat(3, 10) ELSE Zero
         IN  RMin(Rat(7, 10), RAdd(tier, GetOr(crisis_forecasts, cc, Zero)))
    ELSE Zero

PenaltyNames == <<"gini_coefficient", "youth_unemployment", "neet_ratio", "inflation_annual">>

\* calculate_jiang_stability, lines 680-687
DeltaPenalty(dlt) ==
    SumSeq([i \in 1..Len(PenaltyNames) |->
              LET delta == GetOr(dlt, PenaltyNames[i], None)
              IN  IF delta # None /\ RGt(safe_float(delta, Zero), Zero)
                  THEN RMul(delta, Rat(1, 10)) ELSE Zero])

\* calculate_jiang_stability, lines 689-697
ForecastPenalty(indicators, fct) ==
    SumSeq([i \in 1..Len(PenaltyNames) |->
              LET value == GetOr(indicators, PenaltyNames[i], None)
              IN  IF value # None
                  THEN LET v == safe_float(value, Zero)
                           forecast_val == safe_float(GetOr(fct, PenaltyNames[i], v), v)
                       IN  RMul(RMax(Zero, RSub(forecast_val, v)), Rat(5, 100))
                  ELSE Zero])

\* calculate_jiang_stability, lines 646-697
SystemicRiskScore(indicators, dlt, fct, cc, shock_factor, high_risk) ==
    LET normalized_values == NormalizedValues(indicators)
        penalties == ThresholdRisk(indicators, normalized_values)
        grouped == SumSeq(<<RMul(GroupScore(normalized_values, groups.economic), GroupWeights.economic),
                            RMul(GroupScore(normalized_values, groups.social), GroupWeights.social),
                            RMul(GroupScore(normalized_values, groups.demographic), GroupWeights.demographic)>>)
        shocked == RMul(RAdd(penalties, grouped), shock_factor)
    IN  SumSeq(<<shocked, RMul(GeoRisk(cc, high_risk), Rat(15, 100)),
                 DeltaPenalty(dlt), ForecastPenalty(indicators, fct)>>)

StabilityFrom_unclamped(base_score, systemic_risk_score) ==
    LET systemic_multiplier == RSub(Rat(15, 10), systemic_risk_score)
    IN  Round2(RMul(base_score, systemic_multiplier))

\* calculate_jiang_stability, lines 699-703
StabilityFrom(base_score, systemic_risk_score) ==
    LET systemic_multiplier ==
            RMax(Rat(5, 10), RMin(Rat(15, 10), RSub(Rat(15, 10), systemic_risk_score)))
        final_score == RMul(base_score, systemic_multiplier)
    IN  Round2(RMax(One, RMin(RInt(10), final_score)))

\* calculate_jiang_stability, lines 705-710
JiangStatus(final_score) ==
    IF RLe(final_score, thresholds["estabilidad_jiang"].critical) THEN "critical"
    ELSE IF RLe(final_score, thresholds["estabilidad_jiang"].alert) THEN "alert"
    ELSE "stable"

\* shock_factor and high_risk are the values returned by get_gdelt_shock_factor
\* (line 667) and fetch_latest_fsi (line 670)
calculate_jiang_stability(indicators, dlt, fct, cc, shock_factor, high_risk) ==
    LET normalized_values == NormalizedValues(indicators)
        base_score == BaseScore(indicators, cc)
        systemic_risk_score == SystemicRiskScore(indicators, dlt, fct, cc, shock_factor, high_risk)
        final_score == StabilityFrom(base_score, systemic_risk_score)
    IN  [status |-> JiangStatus(final_score),
         valor |-> final_score,
         indicators |-> [k \in {n \in DOMAIN thresholds : n \in DOMAIN indicators} |->
                            RiskStatus(GetOr(normalized_values, k, Rat(5, 10)), thresholds[k])],
         groups |-> [g \in DOMAIN groups |-> Round2(GroupScore(normalized_values, groups[g]))],
         normalized_values |-> normalized_values,
         base_score |-> base_score,
         systemic_risk_score |-> systemic_risk_score,
         shock_factor |-> shock_factor]

-----------------------------------------------------------------------------
(* generar_json.py: process_country from line 754 on, for sampled results   *)
(* of the fetch loop of lines 727-752.                                      *)

IndicatorNames ==
    <<"gini_coefficient", "youth_unemployment", "inflation_annual", "neet_ratio",
      "tertiary_education", "gdppc", "suicide_rate", "government_effectiveness">>

SampledValues(name) ==
    CASE name = "gini_coefficient"         -> {RInt(30), RInt(45), RInt(60)}
      [] name = "youth_unemployment"       -> {RInt(20), RInt(40)}
      [] name = "inflation_annual"         -> {RInt(-2), RInt(15)}
      [] name = "neet_ratio"               -> {RInt(10), RInt(25)}
      [] name = "tertiary_education"       -> {RInt(10), RInt(25)}
      [] name = "gdppc"                    -> {RInt(1000), RInt(12500)}
      [] name = "suicide_rate"             -> {RInt(10)}
      [] name = "government_effectiveness" -> {Rat(-2, 10), Rat(5, 10)}

FetchedIndicators ==
    { [gini_coefficient |-> g, youth_unemployment |-> y, inflation_annual |-> i,
       neet_ratio |-> n, tertiary_education |-> t, gdppc |-> p, suicide_rate |-> s,
       government_effectiveness |-> e] :
        g \in SampledValues("gini_coefficient"), y \in SampledValues("youth_unemployment"),
        i \in SampledValues("inflation_annual"), n \in SampledValues("neet_ratio"),
        t \in SampledValues("tertiary_education"), p \in SampledValues("gdppc"),
        s \in SampledValues("suicide_rate"), e \in SampledValues("government_effectiveness") }

\* deltas and forecasts exist for the indicators that came with a history
SampledDeltas ==
    { <<>>,
      [gini_coefficient |-> Rat(5, 10), youth_unemployment |-> RInt(-1),
       neet_ratio |-> Zero, inflation_annual |-> RInt(2)] }

SampledForecasts ==
    { <<>>,
      [gini_coefficient |-> RInt(62), youth_unemployment |-> RInt(18),
       neet_ratio |-> RInt(11), inflation_annual |-> RInt(16)] }

ShockFactors == {One, Rat(18, 10), Rat(25, 10)}

\* results of fetch_latest_fsi: the fallback table or a scraped table
FsiTables == {high_risk_countries, [c \in {"SDN"} |-> Rat(955, 10)]}

ScoreCountries == {"CHN", "SDN"}

ScoreInit ==
    /\ PropIdle /\ FetchIdle /\ ForecastIdle /\ PoolIdle /\ RerunIdle /\ DatasetIdle /\ ShockIdle /\ EudIdle
    /\ country_code \in ScoreCountries
    /\ all_indicators \in FetchedIndicators
    /\ deltas \in SampledDeltas
    /\ forecasts \in SampledForecasts
    /\ jiang_stability = None
    /\ turchin_instability = None
    /\ score_pc = "fetched"

\* process_country, lines 754-761
ComputeProxies ==
    /\ score_pc = "fetched"
    /\ LET proxies == calculate_proxies(all_indicators)
           with_proxies == [wealth_concentration |-> proxies[1],
                            education_gap |-> proxies[2],
                            elite_overproduction |-> proxies[3]] @@ all_indicators
           social == calculate_social_indicators(country_code, with_proxies)
       IN  all_indicators' = [social_polarization |-> social[1],
                              institutional_distrust |-> social[2]] @@ with_proxies
    /\ score_pc' = "proxies"
    /\ UNCHANGED <<country_code, deltas, forecasts, jiang_stability, turchin_instability>>
    /\ UNCHANGED outsideScore

\* process_country, lines 763-766
RecordShock ==
    /\ score_pc = "proxies"
    /\ \E shock_factor \in {One, Rat(25, 10)}, high_risk \in FsiTables :
          all_indicators' = [shock_factor |-> shock_factor,
                             fsi_score |-> GetOr(high_risk, country_code, Zero)] @@ all_indicators
    /\ score_pc' = "shock"
    /\ UNCHANGED <<country_code, deltas, forecasts, jiang_stability, turchin_instability>>
    /\ UNCHANGED outsideScore

\* process_country, line 768
ScoreJiang ==
    /\ score_pc = "shock"
    /\ \E shock_factor \in ShockFactors, high_risk \in FsiTables :
          jiang_stability' = calculate_jiang_stability(all_indicators, deltas, forecasts,
                                                       country_code, shock_factor, high_risk)
    /\ score_pc' = "jiang"
    /\ UNCHANGED <<country_code, all_indicators, deltas, forecasts, turchin_instability>>
    /\ UNCHANGED outsideScore

\* process_country, lines 769-780
ScoreTurchin ==
    /\ score_pc = "jiang"
    /\ turchin_instability' = calculate_turchin_instability(all_indicators, deltas, forecasts)
    /\ score_pc' = "done"
    /\ UNCHANGED <<country_code, all_indicators, deltas, forecasts, jiang_stability>>
    /\ UNCHANGED outsideScore

ScoreNext == ComputeProxies \/ RecordShock \/ ScoreJiang \/ ScoreTurchin

SpecScore == ScoreInit /\ [][ScoreNext]_vars

-----------------------------------------------------------------------------
(* Properties of the composite scores.                                      *)

Clamp(x, lo, hi) == RMax(lo, RMin(hi, x))

RiskIncrements == {Rat(k, 4) : k \in 0..8}

\* C8: the stability score is clamp(base_score x clamp(1.5 - systemic_risk_score,
\* 0.5, 1.5), 1, 10), reported to two decimals, with base_score in [1,10]; it
\* lies in [1,10], and a larger systemic_risk_score never gives a larger score
\* for the same base_score.
C8_StabilityFormula ==
    jiang_stability # None =>
        LET b == jiang_stability.base_score
            r == jiang_stability.systemic_risk_score
            v == jiang_stability.valor
        IN  /\ RGe(b, One) /\ RLe(b, RInt(10))
            /\ v = Round2(Clamp(RMul(b, Clamp(RSub(Rat(15, 10), r), Rat(5, 10), Rat(15, 10))),
                                One, RInt(10)))
            /\ RGe(v, One) /\ RLe(v, RInt(10))
            /\ \A inc \in RiskIncrements : RLe(StabilityFrom(b, RAdd(r, inc)), v)

\* a score whose multiplier is strictly inside (0.5, 1.5) and that is not
\* clamped at either end of [1,10]
C8_Witness ==
    /\ jiang_stability # None
    /\ RGt(jiang_stability.systemic_risk_score, Zero)
    /\ RLt(jiang_stability.systemic_risk_score, One)
    /\ RGt(jiang_stability.valor, One)
    /\ RLt(jiang_stability.valor, RInt(10))
    /\ RLt(StabilityFrom(jiang_stability.base_score,
                         RAdd(jiang_stability.systemic_risk_score, Rat(1, 4))),
           jiang_stability.valor)

\* C9 (as stated): every normalized indicator value used by the composite
\* scoring lies in [0,1], for every raw input.
C9_NormalizedInUnitInterval ==
    jiang_stability # None =>
        \A k \in DOMAIN jiang_stability.normalized_values :
            /\ RGe(jiang_stability.normalized_values[k], Zero)
            /\ RLe(jiang_stability.normalized_values[k], One)

-----------------------------------------------------------------------------
(* generar_json.py: fetch_world_bank_data, one call.                        *)

\* indicator_sources: the provider code of each indicator, as its parts
indicator_sources ==
    [gini_coefficient         |-> <<"SI", "POV", "GINI">>,
     youth_unemployment       |-> <<"SL", "UEM", "1524", "ZS">>,
     inflation_annual         |-> <<"FP", "CPI", "TOTL", "ZG">>,
     neet_ratio               |-> <<"SL", "UEM", "NEET", "ZS">>,
     tertiary_education       |-> <<"SE", "TER", "CUAT", "BA", "ZS">>,
     gdppc                    |-> <<"NY", "GDP", "PCAP", "CD">>,
     suicide_rate             |-> <<"SH", "STA", "SUIC", "P5">>,
     government_effectiveness |-> <<"GE", "EST">>]

\* indicator_code.split('.')[-1], as a key of one part
SplitLast(code) == <<code[Len(code)]>>

\* the empty dict
EmptyDict == [k \in {} |-> k]

\* dict[key] = value
DictSet(dict, key, value) ==
    [k \in DOMAIN dict \cup {key} |-> IF k = key THEN value ELSE dict[k]]

\* Python truthiness of a JSON 'date' field
Truthy(d) == d # None /\ d # [text |-> <<>>] /\ d # [number |-> 0]

\* lines 301-309 for one item: [dict |-> historical after it], or
\* [raise |-> the exception it raises]
ParseItem(item, hist) ==
    IF item = None THEN [raise |-> "AttributeError"]
    ELSE LET d == GetOr(item, "date", None)
         IN  IF ~Truthy(d) THEN [dict |-> hist]
             ELSE IF "text" \notin DOMAIN d THEN [raise |-> "AttributeError"]
             ELSE IF ~isdigit(d.text) THEN [dict |-> hist]
             ELSE IF "value" \notin DOMAIN item THEN [raise |-> "KeyError"]
             ELSE IF item.value = None THEN [dict |-> hist]
             ELSE LET year == safe_int(d, None)    \* an int: the text is all digits
                      value == safe_float(item.value, None)
                  IN  IF value # None
                      THEN [dict |-> DictSet(hist, year, value)]
                      ELSE [dict |-> hist]

RECURSIVE ParseItems(_, _)
ParseItems(items, acc) ==
    IF items = <<>> \/ "raise" \in DOMAIN acc THEN acc
    ELSE ParseItems(Tail(items), ParseItem(Head(items), acc.dict))

\* lines 299-309: 'historical' for a decoded body, or the exception raised
\* (a decoded list is given by its length and its element data[1], a page)
ParseBody(data) ==
    IF data # None /\ data.len > 1 /\ data.page # None /\ data.page.items # <<>>
    THEN ParseItems(data.page.items, [dict |-> EmptyDict])
    ELSE [dict |-> EmptyDict]

\* greatest and least element of a non-empty set of integers
MaxOf(S) == CHOOSE x \in S : \A y \in S : y <= x
MinOf(S) == CHOOSE x \in S : \A y \in S : x <= y

\* sum(dict.values())
RECURSIVE SumValues(_)
SumValues(dict) ==
    IF DOMAIN dict = {} THEN Zero
    ELSE LET k == CHOOSE y \in DOMAIN dict : TRUE
         IN  RAdd(dict[k], SumValues([y \in DOMAIN dict \ {k} |-> dict[y]]))

\* np.var of the values of a dict (population variance)
Variance(hist) ==
    LET n == RInt(Cardinality(DOMAIN hist))
        mean == RDiv(SumValues(hist), n)
        squares == [y \in DOMAIN hist |-> RMul(RSub(hist[y], mean), RSub(hist[y], mean))]
    IN  RDiv(SumValues(squares), n)

\* lines 312-319: the record built from a non-empty 'historical'
FetchedResult(hist) ==
    LET years == DOMAIN hist
        current == hist[MaxOf(years)]
    IN  [historical |-> hist,
         current |-> current,
         delta |-> IF Cardinality(years) > 1
                   THEN RDiv(RSub(current, hist[MinOf(years)]), RInt(Cardinality(years)))
                   ELSE Zero,
         variance |-> Variance(hist)]

\* lines 327-329 and 338-340: the record built when nothing was obtained
DefaultResult(code, cc) ==
    [historical |-> EmptyDict,
     current |-> DefaultLookup(SplitLast(code), cc, Zero),
     delta |-> Zero,
     variance |-> Zero]

cache_key == <<fetch_country, indicator_code>>

attempts == 3

\* the cache is kept for less than this many days
CacheDays == 7

DaysPerYear == 365

\* (t2 - t1).days for two dates given as [year, day of the year]
DaysBetween(t1, t2) == (t2.year - t1.year) * DaysPerYear + (t2.day - t1.day)

\* the date a number of days (less than a year) before t
DaysBefore(t, a) ==
    IF t.day > a THEN [year |-> t.year, day |-> t.day - a]
    ELSE [year |-> t.year - 1, day |-> t.day - a + DaysPerYear]

\* ---- the inputs of one call ----
MaxItems == 2

YearTexts == {<<"2", "0", "1", "9">>, <<"2", "0", "2", "0">>}

DateFields == {None, [number |-> 2020]} \cup {[text |-> y] : y \in YearTexts}

ValueFields == {None, RInt(30), RInt(45)}

\* the elements of data[1]: records with both fields, records without
\* 'value', and null
Items ==
    {None}
      \cup {[date |-> d, value |-> v] : d \in DateFields, v \in ValueFields}
      \cup {[date |-> d] : d \in DateFields}

ItemLists == UNION {[1..n -> Items] : n \in 0..MaxItems}

\* decoded bodies: null, a lone message element, a null page, a page of items
Bodies ==
    {None, [len |-> 1], [len |-> 2, page |-> None]}
      \cup {[len |-> 2, page |-> [items |-> items]] : items \in ItemLists}

\* what one pass through lines 293-297 meets: requests.get raising before a
\* response exists, an HTTP error status, an undecodable body, a decoded body
Outcomes ==
    {[kind |-> "no_response"], [kind |-> "bad_json"]}
      \cup {[kind |-> "http_error", status_code |-> st] : st \in {429, 500}}
      \cup {[kind |-> "body", data |-> b] : b \in Bodies}

FetchCountries == {"CHN", "USA"}

CachedData == FetchedResult([y \in {2018} |-> RInt(33)])

\* the dates of the run: early in January, and in the middle of the year
RunDates == {[year |-> 2026, day |-> 3], [year |-> 2026, day |-> 200]}

\* how many days before the run the cached entry was retrieved
CacheAges == {6, 7, 100}

CacheStates(key, t) ==
    {EmptyDict} \cup {[k \in {key} |-> [data |-> CachedData, timestamp |-> DaysBefore(t, a)]] :
                        a \in CacheAges}

FetchInit ==
    /\ PropIdle /\ ScoreIdle /\ ForecastIdle /\ PoolIdle /\ RerunIdle /\ DatasetIdle /\ ShockIdle /\ EudIdle
    /\ fetch_country \in FetchCountries
    /\ \E name \in DOMAIN indicator_sources : indicator_code = indicator_sources[name]
    /\ now \in RunDates
    /\ cache \in CacheStates(cache_key, now)
    /\ cache_lock = "free"
    /\ attempt = 0
    /\ response = None
    /\ hist_data = None
    /\ raised = None
    /\ fetch_error = None
    /\ fetch_pc = "start"

\* the call going to the provider whatever the cache holds
CheckCache_refetch ==
    /\ fetch_pc = "start"
    /\ cache_lock = "free"
    /\ fetch_pc' = "attempt"
    /\ UNCHANGED <<fetch_country, indicator_code, now, cache, cache_lock, attempt, response,
                   hist_data, raised, fetch_error>>
    /\ UNCHANGED outsideFetch

\* lines 280-289: the cache read, under the lock, which is released on leaving
CheckCache ==
    /\ fetch_pc = "start"
    /\ cache_lock = "free"
    /\ IF cache_key \in DOMAIN cache
          /\ DaysBetween(cache[cache_key].timestamp, now) < CacheDays
       THEN /\ hist_data' = cache[cache_key].data
            /\ fetch_pc' = "returned"
       ELSE /\ fetch_pc' = "attempt"
            /\ UNCHANGED hist_data
    /\ UNCHANGED <<fetch_country, indicator_code, now, cache, cache_lock, attempt, response, raised,
                   fetch_error>>
    /\ UNCHANGED outsideFetch

\* lines 330-336 with the loop header: the handler of RequestException, given
\* the binding of 'response' when the exception arrives
OnRequestException(resp) ==
    /\ response' = resp
    /\ IF resp # None /\ resp.status_code = 429
       THEN IF attempt + 1 < attempts
            THEN /\ attempt' = attempt + 1
                 /\ fetch_pc' = "attempt"
            ELSE /\ fetch_pc' = "default"
                 /\ UNCHANGED attempt
       ELSE /\ fetch_pc' = "default"
            /\ UNCHANGED attempt
    /\ UNCHANGED <<cache, cache_lock, raised>>

\* lines 299-324 for a decoded body, up to the call of save_cache: the lock is
\* taken at line 320 and is held while save_cache runs
OnBody(data) ==
    LET parsed == ParseBody(data)
    IN  /\ response' = [status_code |-> 200]
        /\ UNCHANGED attempt
        /\ IF "raise" \in DOMAIN parsed
           THEN /\ raised' = [type |-> parsed.raise]
                /\ fetch_pc' = "raised"
                /\ UNCHANGED <<cache, cache_lock>>
           ELSE IF parsed.dict # EmptyDict
           THEN /\ cache_lock = "free"
                /\ cache_lock' = "held"
                /\ cache' = DictSet(cache, cache_key,
                                    [data |-> FetchedResult(parsed.dict), timestamp |-> now])
                /\ fetch_pc' = "save_cache"
                /\ UNCHANGED raised
           ELSE /\ fetch_pc' = "default"
                /\ UNCHANGED <<cache, cache_lock, raised>>

\* lines 291-336: one pass of the retry loop
TryFetch ==
    /\ fetch_pc = "attempt"
    /\ \E outcome \in Outcomes :
          CASE outcome.kind = "no_response" ->
                   /\ OnRequestException(response)
                   /\ fetch_error' = [type |-> "ConnectionError"]
            [] outcome.kind = "http_error"  ->
                   /\ OnRequestException([status_code |-> outcome.status_code])
                   /\ fetch_error' = [type |-> "HTTPError"]
            [] outcome.kind = "bad_json"    ->
                   /\ OnRequestException([status_code |-> 200])
                   /\ fetch_error' = [type |-> "JSONDecodeError"]
            [] outcome.kind = "body"        ->
                   /\ OnBody(outcome.data)
                   /\ UNCHANGED fetch_error
    /\ UNCHANGED <<fetch_country, indicator_code, now, hist_data>>
    /\ UNCHANGED outsideFetch

\* save_cache, lines 266-274, called at line 322: 'with self.cache_lock' waits
\* for the lock; the caller returns at line 324 once save_cache is back
save_cache ==
    /\ fetch_pc = "save_cache"
    /\ IF cache_lock = "free"
       THEN /\ hist_data' = cache[cache_key].data
            /\ fetch_pc' = "returned"
       ELSE /\ fetch_pc' = "blocked"
            /\ UNCHANGED hist_data
    /\ UNCHANGED <<fetch_country, indicator_code, now, cache, cache_lock, attempt, response, raised,
                   fetch_error>>
    /\ UNCHANGED outsideFetch

\* lines 326-329 and 337-340
ReturnDefault ==
    /\ fetch_pc = "default"
    /\ hist_data' = DefaultResult(indicator_code, fetch_country)
    /\ fetch_pc' = "returned"
    /\ UNCHANGED <<fetch_country, indicator_code, now, cache, cache_lock, attempt, response, raised,
                   fetch_error>>
    /\ UNCHANGED outsideFetch

FetchNext == CheckCache \/ TryFetch \/ save_cache \/ ReturnDefault

SpecFetch == FetchInit /\ [][FetchNext]_vars

-----------------------------------------------------------------------------
(* Properties of fetch_world_bank_data.                                     *)

IsSuffix(key, code) ==
    /\ Len(key) <= Len(code)
    /\ SubSeq(code, Len(code) - Len(key) + 1, Len(code)) = key

\* the entry of default_indicator_values configured for an indicator code:
\* the country's value when the entry has one, else its 'default'
ConfiguredDefault(code, cc) ==
    LET key == CHOOSE k \in DOMAIN default_indicator_values : IsSuffix(k, code)
        entry == default_indicator_values[key]
    IN  IF cc \in DOMAIN entry THEN entry[cc] ELSE entry.default

\* C1 (as stated): a call that obtained no series returns as 'current' the
\* configured default of its (indicator, country) pair, for each of the eight
\* indicators of indicator_sources.
C1_ReturnsConfiguredDefault ==
    (fetch_pc = "returned" /\ hist_data.historical = EmptyDict)
        => hist_data.current = ConfiguredDefault(indicator_code, fetch_country)

\* C2 (as stated): whatever the provider does, the call ends by returning a
\* record whose 'current' is a number; no exception leaves it and it does not
\* stay inside the call.
C2_ReturnsNumberNeverThrows ==
    /\ raised = None
    /\ fetch_pc # "blocked"
    /\ fetch_pc = "returned" => IsRat(hist_data.current)

-----------------------------------------------------------------------------
(* forecast_indicator of generar_json.py and of generate_csv.py, one call.  *)
(* 'historical' is the list of the dict's (year, value) items in insertion  *)
(* order.  Values are -1 or of the form 2^k - 1, so that log1p is exact in   *)
(* units of ln 2: log1p(2^k - 1) = k ln 2.                                  *)

RECURSIVE Pow2(_)
Pow2(k) == IF k = 0 THEN 1 ELSE 2 * Pow2(k - 1)

MaxExponent == 4

\* np.log1p(max(0, v)) in units of ln 2
Log1p(v) ==
    LET w == RMax(Zero, v)
    IN  RInt(CHOOSE k \in 0..MaxExponent : RInt(Pow2(k) - 1) = w)

\* np.expm1(x ln 2) = 2^x - 1: the number itself when x is a natural number,
\* else the number given by its exponent
Expm1(x) ==
    IF x.d = 1 /\ x.n \in 0..MaxExponent THEN RInt(Pow2(x.n) - 1) ELSE [expm1 |-> x]

Years(hist) == {hist[i][1] : i \in 1..Len(hist)}

\* sorted(historical.keys())
RECURSIVE SortedSeq(_)
SortedSeq(S) ==
    IF S = {} THEN <<>> ELSE <<MinOf(S)>> \o SortedSeq(S \ {MinOf(S)})

\* [historical[year] for year in years]
ValuesByYear(hist) ==
    LET years == SortedSeq(Years(hist))
    IN  [i \in 1..Len(years) |->
            hist[CHOOSE j \in 1..Len(hist) : hist[j][1] = years[i]][2]]

\* list(historical.values())[-1] if historical else 0.0
LastInserted(hist) == IF hist = <<>> THEN Zero ELSE hist[Len(hist)][2]

Mean(values) == RDiv(SumSeq(values), RInt(Len(values)))

\* np.var(values)
VarOf(values) ==
    LET m == Mean(values)
    IN  Mean([i \in 1..Len(values) |-> RMul(RSub(values[i], m), RSub(values[i], m))])

\* np.diff(values)
Diff(values) == [i \in 1..(Len(values) - 1) |-> RSub(values[i + 1], values[i])]

Square(x) == RMul(x, x)

\* line 358: max(years) - min(years) + 1 > len(years) * 1.5
HasGaps(hist) ==
    LET years == Years(hist)
    IN  2 * (MaxOf(years) - MinOf(years) + 1) > 3 * Cardinality(years)

\* line 361: np.any(np.abs(np.diff(values)) > np.std(values) * 3), squared
HasOutliers(values) ==
    \E i \in 1..(Len(values) - 1) :
        RGt(Square(Diff(values)[i]), RMul(RInt(9), VarOf(values)))

RECURSIVE SeqMax(_)
SeqMax(values) ==
    IF Len(values) = 1 THEN values[1] ELSE RMax(Head(values), SeqMax(Tail(values)))

RECURSIVE SeqMin(_)
SeqMin(values) ==
    IF Len(values) = 1 THEN values[1] ELSE RMin(Head(values), SeqMin(Tail(values)))

\* line 364: np.var < 1e-4 or np.std < 1e-3 or max - min < 1e-2
LowVariance(values) ==
    \/ RLt(VarOf(values), Rat(1, 10000))
    \/ RLt(VarOf(values), Rat(1, 1000000))
    \/ RLt(RSub(SeqMax(values), SeqMin(values)), Rat(1, 100))

\* the two files differ in the least length, the guards, the differencing
\* and the list of ARIMA orders
MinPoints(v) == IF v = "generar_json" THEN 7 ELSE 5

orders(v) ==
    IF v = "generar_json"
    THEN <<<<1, 0, 0>>, <<0, 0, 0>>>>
    ELSE <<<<1, 0, 0>>, <<0, 1, 0>>, <<0, 0, 1>>, <<0, 0, 0>>>>

Differenced(v, hist) == v = "generate_csv" \/ Len(hist) >= 8

\* the guards reduced to the test of the length
EarlyReturn_lengthonly(v, hist) ==
    IF Len(hist) < MinPoints(v) THEN LastInserted(hist) ELSE None

\* the value returned before any model is fitted, or None when the call
\* goes on to the ARIMA loop
EarlyReturn(v, hist) ==
    IF Len(hist) < MinPoints(v) THEN LastInserted(hist)
    ELSE LET values == ValuesByYear(hist)
         IN  IF v = "generar_json"
             THEN IF HasGaps(hist) \/ HasOutliers(values) \/ LowVariance(values)
                  THEN values[Len(values)] ELSE None
             ELSE IF RLt(VarOf(values), Rat(1, 10000))
                  THEN values[Len(values)] ELSE None

\* values = [np.log1p(max(0, v)) for v in values]
LogValues(hist) ==
    LET values == ValuesByYear(hist)
    IN  [i \in 1..Len(values) |-> Log1p(values[i])]

\* what a fitted model answers for steps = 2, in units of ln 2, and the
\* failure of a stage (the constructor, fit or forecast raising)
LibraryForecasts == {<<Rat(1, 2), Rat(1, 2)>>, <<RInt(-1), RInt(2)>>}

StageOutcomes == {[raise |-> "Exception"]} \cup {[forecast_diff |-> f] : f \in LibraryForecasts}

\* lines 391-396: reverse differencing and log-transformation
ArimaReturn(v, hist, forecast_diff) ==
    LET values == LogValues(hist)
        last_value == values[Len(values)]
    IN  IF Differenced(v, hist)
        THEN Expm1(RAdd(last_value, SumSeq(forecast_diff)))
        ELSE Expm1(forecast_diff[Len(forecast_diff)])

\* lines 410-416: the moving average of the last values
MovingAverageReturn(hist) ==
    LET values == LogValues(hist)
        window_size == IF Len(values) < 3 THEN Len(values) ELSE 3
    IN  IF window_size > 0
        THEN Expm1(Mean(SubSeq(values, Len(values) - window_size + 1, Len(values))))
        ELSE Zero

\* a stage raising: where the call is next and what leaves it
StageFailed_uncaught(next_pc) == [pc |-> "raised", raised |-> [type |-> "Exception"]]

\* 'except Exception' of lines 397-399 and 407-408: the call goes on
StageFailed(next_pc) == [pc |-> next_pc, raised |-> None]

\* ---- the inputs of one call ----
MaxLen == 8

SeriesValues == {RInt(-1), RInt(7)}

\* the years of n points: consecutive, or every second year
YearLayouts(n) ==
    {[i \in 1..n |-> 2024 - n + i], [i \in 1..n |-> 2024 - 2 * (n - i)]}

\* the provider lists the newest year first; a cache file lists them as saved
InsertionOrders(n) == {[i \in 1..n |-> i], [i \in 1..n |-> n + 1 - i]}

SeriesOfLen(n) ==
    {[i \in 1..n |-> <<years[ord[i]], vals[ord[i]]>>] :
        years \in YearLayouts(n), ord \in InsertionOrders(n), vals \in [1..n -> SeriesValues]}

ForecastInit ==
    /\ PropIdle /\ ScoreIdle /\ FetchIdle /\ PoolIdle /\ RerunIdle /\ DatasetIdle /\ ShockIdle /\ EudIdle
    /\ variant \in {"generar_json", "generate_csv"}
    /\ historical \in UNION {SeriesOfLen(n) : n \in 0..MaxLen}
    /\ order_idx = 1
    /\ forecast = None
    /\ forecast_raised = None
    /\ forecast_pc = "start"

\* generar_json.py lines 343-384, generate_csv.py lines 284-310
CheckSeries ==
    /\ forecast_pc = "start"
    /\ LET early == EarlyReturn(variant, historical)
       IN  IF early # None
           THEN /\ forecast' = early
                /\ forecast_pc' = "returned"
           ELSE /\ forecast_pc' = "arima"
                /\ UNCHANGED forecast
    /\ UNCHANGED <<variant, historical, order_idx, forecast_raised>>
    /\ UNCHANGED outsideForecast

\* generar_json.py lines 385-399, generate_csv.py lines 311-322: one order
TryArima ==
    /\ forecast_pc = "arima"
    /\ \E outcome \in StageOutcomes :
          IF "raise" \in DOMAIN outcome
          THEN LET after == StageFailed(IF order_idx < Len(orders(variant))
                                        THEN "arima" ELSE "smoothing")
               IN  /\ forecast_pc' = after.pc
                   /\ forecast_raised' = after.raised
                   /\ order_idx' = order_idx + 1
                   /\ UNCHANGED forecast
          ELSE /\ forecast' = ArimaReturn(variant, historical, outcome.forecast_diff)
               /\ forecast_pc' = "returned"
               /\ UNCHANGED <<order_idx, forecast_raised>>
    /\ UNCHANGED <<variant, historical>>
    /\ UNCHANGED outsideForecast

\* generar_json.py lines 401-408, generate_csv.py lines 324-331
TrySmoothing ==
    /\ forecast_pc = "smoothing"
    /\ \E outcome \in StageOutcomes :
          IF "raise" \in DOMAIN outcome
          THEN LET after == StageFailed("moving_average")
               IN  /\ forecast_pc' = after.pc
                   /\ forecast_raised' = after.raised
                   /\ UNCHANGED forecast
          ELSE /\ forecast' = Expm1(outcome.forecast_diff[Len(outcome.forecast_diff)])
               /\ forecast_pc' = "returned"
               /\ UNCHANGED forecast_raised
    /\ UNCHANGED <<variant, historical, order_idx>>
    /\ UNCHANGED outsideForecast

\* generar_json.py lines 410-416, generate_csv.py lines 333-338
MovingAverage ==
    /\ forecast_pc = "moving_average"
    /\ forecast' = MovingAverageReturn(historical)
    /\ forecast_pc' = "returned"
    /\ UNCHANGED <<variant, historical, order_idx, forecast_raised>>
    /\ UNCHANGED outsideForecast

ForecastNext == CheckSeries \/ TryArima \/ TrySmoothing \/ MovingAverage

SpecForecast == ForecastInit /\ [][ForecastNext]_vars

-----------------------------------------------------------------------------
(* Properties of forecast_indicator.                                        *)

\* a float that is neither NaN nor infinite: a rational, or 2^x - 1 for a
\* rational x
IsFinite(v) ==
    /\ v # None
    /\ IF "expm1" \in DOMAIN v THEN IsRat(v.expm1) ELSE IsRat(v)

MostRecentValue(hist) == ValuesByYear(hist)[Len(hist)]

\* C11 (as stated): a series shorter than the minimum is answered with the
\* value at its greatest year, whatever the insertion order of its points.
C11_ShortSeriesReturnsMostRecent ==
    (forecast_pc = "returned" /\ historical # <<>> /\ Len(historical) < MinPoints(variant))
        => forecast = MostRecentValue(historical)

\* the call was answered from the cache at lines 282-285
ServedFromCache ==
    /\ fetch_pc = "returned" /\ response = None
    /\ cache_key \in DOMAIN cache /\ hist_data = cache[cache_key].data

\* the call went past a cached entry to the provider
Refetched == cache_key \in DOMAIN cache /\ fetch_pc # "start" /\ ~ServedFromCache

\* the frequency class of the World Bank indicators is annual: an entry is
\* fresh while the calendar year of its retrieval lasts
FreshAnnual(entry, t) == entry.timestamp.year = t.year

\* C12 (as stated): a cached entry of an annual-class indicator is served
\* without re-fetching exactly until the calendar year changes after its
\* retrieval.
C12_AnnualFreshUntilYearChanges ==
    /\ ServedFromCache => FreshAnnual(cache[cache_key], now)
    /\ (Refetched /\ fetch_pc = "attempt" /\ attempt = 0 /\ response = None)
           => ~FreshAnnual(cache[cache_key], now)

\* the last pass of the retry loop ended in a transport-level failure or a
\* rate limit: no response at all (timeout, connection error), 5xx, or 429
LastFailureRetryable ==
    response = None \/ response.status_code \in {429, 500}

\* C18 (as stated): transport-level failures and rate limits are retried, up
\* to 3 attempts in all, before the call gives up with a no-data result.
C18_TransportFailuresRetried ==
    /\ attempt < attempts
    /\ (fetch_pc = "default" /\ LastFailureRetryable) => attempt = attempts - 1

\* C19 (as stated): after a failure that is not retryable (a response other
\* than a rate limit: undecodable or malformed body) no further attempt is
\* made and the caller gets a no-data record, not an exception.
C19_NonRetryableEndsWithNoData ==
    /\ (fetch_pc = "attempt" /\ attempt > 0) => response.status_code = 429
    /\ (response # None /\ response.status_code = 200
          /\ fetch_pc \notin {"attempt", "save_cache", "blocked", "default"})
         => (fetch_pc = "returned" /\ hist_data.historical = EmptyDict)

-----------------------------------------------------------------------------
(* Further properties of the composite scores.                              *)

\* the class an indicator value has against its configured cutoffs
CutoffClass(value, threshold) ==
    IF RGe(value, threshold.critical) THEN "critical"
    ELSE IF RGe(value, threshold.alert) THEN "alert"
    ELSE "stable"

\* C20 (as stated): every indicator of the thresholds table that has a value
\* is classified by comparing that value with its cutoffs, inclusively: at or
\* above 'critical' it is critical, else at or above 'alert' it is alert.
C20_CutoffsInclusive ==
    jiang_stability # None =>
        \A k \in DOMAIN jiang_stability.indicators :
            jiang_stability.indicators[k] = CutoffClass(all_indicators[k], thresholds[k])

-----------------------------------------------------------------------------
(* main_generar_json.py: the propagation pass over a file whose records may *)
(* lack a field.                                                            *)

\* records of data_paises.json: complete ones, one without 'indicators', one
\* without 'inestabilidad_turchin'
BatchRecords ==
    { r \in FirstPassRecords : r.indicators = LowProfile }
      \cup { [inestabilidad_turchin |-> [status |-> "alert", valor |-> Rat(40, 100)],
              border_pressure |-> None],
             [indicators |-> LowProfile, border_pressure |-> None] }

BatchFiles ==
    {[results |-> g] : g \in UNION {[S -> BatchRecords] : S \in SUBSET CountrySet}}

BatchInit ==
    /\ ScoreIdle /\ FetchIdle /\ ForecastIdle /\ PoolIdle /\ RerunIdle /\ DatasetIdle /\ ShockIdle /\ EudIdle
    /\ paises_data \in BatchFiles
    /\ initial_results = <<>>
    /\ final_results = <<>>
    /\ idx = 1
    /\ border_pressure = None
    /\ instability_score = None
    /\ main_pc = "idle"

SpecBatch == BatchInit /\ [][PropNext]_vars

\* C16 (as stated, propagation pass): the run is not ended by the failure of
\* one entity; the other entities are processed and the results are saved.
C16_RunNeverAborts == main_pc # "raised"

-----------------------------------------------------------------------------
(* generar_json.py: main and its thread pool.  Each worker runs             *)
(* process_country for one country; of process_country the calls that use   *)
(* self.cache are modelled: fetch_world_bank_data for every indicator,      *)
(* get_gdelt_shock_factor, fetch_latest_fsi, and the two calls repeated by  *)
(* calculate_jiang_stability.                                               *)

NWorkers == 2

NPoolCountries == 3

NIndicators == 2

Workers == 1..NWorkers

\* the first codes of country_codes (the keys of gdelt_country_mapping)
PoolCountries == SubSeq(<<"USA", "CHN", "IND", "BRA", "RUS">>, 1, NPoolCountries)

PoolCountrySet == {PoolCountries[i] : i \in 1..Len(PoolCountries)}

CacheCall(fn, cc, i) == [fn |-> fn, country |-> cc, indicator |-> i]

\* the cache-using calls of process_country(cc), in order
Calls(cc) ==
    [i \in 1..NIndicators |-> CacheCall("fetch_world_bank_data", cc, i)]
      \o <<CacheCall("get_gdelt_shock_factor", cc, 0), CacheCall("fetch_latest_fsi", "", 0),
           CacheCall("get_gdelt_shock_factor", cc, 0), CacheCall("fetch_latest_fsi", "", 0)>>

CurrentCall(w) == Calls(worker_task[w])[call_idx[w]]

\* cache_key of a call: country and code, 'gdelt_' + country, or 'fsi_data'
KeyOf(call) == call

\* 'with self.cache_lock' of an unlocked threading.Lock
AcquireLock_unguarded(w) == lock_owner' = w

\* 'with self.cache_lock': the thread waits until the lock is free
AcquireLock(w) == lock_owner = 0 /\ lock_owner' = w

\* the call of worker w returns: the next call starts, or process_country
\* returns its result
ReturnFromCall(w) ==
    IF call_idx[w] < Len(Calls(worker_task[w]))
    THEN /\ call_idx' = [call_idx EXCEPT ![w] = @ + 1]
         /\ worker_pc' = [worker_pc EXCEPT ![w] = "want_read"]
         /\ UNCHANGED <<worker_task, futures>>
    ELSE /\ futures' = [futures EXCEPT ![worker_task[w]] = "result"]
         /\ worker_pc' = [worker_pc EXCEPT ![w] = "idle"]
         /\ worker_task' = [worker_task EXCEPT ![w] = None]
         /\ UNCHANGED call_idx

WorldBankKeys ==
    {CacheCall("fetch_world_bank_data", cc, i) : cc \in PoolCountrySet, i \in 1..NIndicators}

\* main, lines 797-803: the cache as loaded, every country submitted
PoolInit ==
    /\ PropIdle /\ ScoreIdle /\ FetchIdle /\ ForecastIdle /\ RerunIdle /\ DatasetIdle /\ ShockIdle /\ EudIdle
    /\ pool_cache \in {{}, WorldBankKeys, WorldBankKeys \cup {CacheCall("fetch_latest_fsi", "", 0)}}
    /\ lock_owner = 0
    /\ worker_pc = [w \in Workers |-> "idle"]
    /\ worker_task = [w \in Workers |-> None]
    /\ call_idx = [w \in Workers |-> 1]
    /\ pending = PoolCountries
    /\ futures = [c \in PoolCountrySet |-> "pending"]
    /\ pool_results = <<>>
    /\ cache_flushes = 0
    /\ pool_pc = "collecting"

\* a free worker thread takes the next submitted call, lines 719-727
StartTask(w) ==
    /\ worker_pc[w] = "idle"
    /\ pending # <<>>
    /\ worker_task' = [worker_task EXCEPT ![w] = Head(pending)]
    /\ pending' = Tail(pending)
    /\ futures' = [futures EXCEPT ![Head(pending)] = "running"]
    /\ call_idx' = [call_idx EXCEPT ![w] = 1]
    /\ worker_pc' = [worker_pc EXCEPT ![w] = "want_read"]
    /\ UNCHANGED <<pool_cache, lock_owner, pool_results, cache_flushes, pool_pc>>
    /\ UNCHANGED outsidePool

\* lines 281, 420, 470: the lock is taken for the cache read
AcquireForRead(w) ==
    /\ worker_pc[w] = "want_read"
    /\ AcquireLock(w)
    /\ worker_pc' = [worker_pc EXCEPT ![w] = "reading"]
    /\ UNCHANGED <<pool_cache, worker_task, call_idx, pending, futures, pool_results,
                   cache_flushes, pool_pc>>
    /\ UNCHANGED outsidePool

\* lines 282-285, 421-424, 471-473: a fresh entry is returned, else the call
\* goes on to the provider; the lock is released on leaving the block.
\* get_gdelt_shock_factor is called with force_refresh=True.
ReadCache(w) ==
    /\ worker_pc[w] = "reading"
    /\ lock_owner' = 0
    /\ IF KeyOf(CurrentCall(w)) \in pool_cache /\ CurrentCall(w).fn # "get_gdelt_shock_factor"
       THEN ReturnFromCall(w)
       ELSE /\ worker_pc' = [worker_pc EXCEPT ![w] = "fetching"]
            /\ UNCHANGED <<worker_task, call_idx, futures>>
    /\ UNCHANGED <<pool_cache, pending, pool_results, cache_flushes, pool_pc>>
    /\ UNCHANGED outsidePool

\* process_country ends with an exception that nothing in it catches
RaiseFromCall(w) ==
    /\ futures' = [futures EXCEPT ![worker_task[w]] = "exception"]
    /\ worker_pc' = [worker_pc EXCEPT ![w] = "idle"]
    /\ worker_task' = [worker_task EXCEPT ![w] = None]
    /\ UNCHANGED call_idx

\* the request and the parsing of its answer, outside the lock: lines 291-319
\* and 326-340, 430-446 and 451-461, 475-499 and 504-506
RemoteFetch(w) ==
    /\ worker_pc[w] = "fetching"
    /\ \E outcome \in {"data", "no_data", "raise"} :
          LET fn == CurrentCall(w).fn
          IN  IF outcome = "data" \/ (outcome = "no_data" /\ fn = "get_gdelt_shock_factor")
              THEN /\ worker_pc' = [worker_pc EXCEPT ![w] = "want_write"]
                   /\ UNCHANGED <<worker_task, call_idx, futures>>
              ELSE IF outcome = "no_data" \/ fn = "fetch_latest_fsi"
              THEN ReturnFromCall(w)
              ELSE RaiseFromCall(w)
    /\ UNCHANGED <<pool_cache, lock_owner, pending, pool_results, cache_flushes, pool_pc>>
    /\ UNCHANGED outsidePool

\* lines 320, 447, 463, 500: the lock is taken for the cache write
AcquireForWrite(w) ==
    /\ worker_pc[w] = "want_write"
    /\ AcquireLock(w)
    /\ worker_pc' = [worker_pc EXCEPT ![w] = "writing"]
    /\ UNCHANGED <<pool_cache, worker_task, call_idx, pending, futures, pool_results,
                   cache_flushes, pool_pc>>
    /\ UNCHANGED outsidePool

\* lines 321, 448, 464, 501: the entry is stored; save_cache is called next,
\* inside the block that holds the lock
WriteCache(w) ==
    /\ worker_pc[w] = "writing"
    /\ pool_cache' = pool_cache \cup {KeyOf(CurrentCall(w))}
    /\ worker_pc' = [worker_pc EXCEPT ![w] = "save_cache"]
    /\ UNCHANGED <<lock_owner, worker_task, call_idx, pending, futures, pool_results,
                   cache_flushes, pool_pc>>
    /\ UNCHANGED outsidePool

\* save_cache, lines 266-274: it takes the lock itself.  The lock is not
\* reentrant: a caller that holds it waits for itself and never goes on.
SaveCacheCall(w) ==
    /\ worker_pc[w] = "save_cache"
    /\ IF lock_owner = w
       THEN /\ worker_pc' = [worker_pc EXCEPT ![w] = "blocked"]
            /\ UNCHANGED <<lock_owner, worker_task, call_idx, futures, cache_flushes>>
       ELSE /\ lock_owner = 0
            /\ cache_flushes' = cache_flushes + 1
            /\ ReturnFromCall(w)
            /\ UNCHANGED lock_owner
    /\ UNCHANGED <<pool_cache, pending, pool_results, pool_pc>>
    /\ UNCHANGED outsidePool

Completed(c) == futures[c] \in {"result", "exception"}

Collected(c) == \E i \in 1..Len(pool_results) : pool_results[i] = c

\* main, lines 804-812: as_completed yields a finished future; its result is
\* appended, its exception is logged
Collect(c) ==
    /\ pool_pc = "collecting"
    /\ Completed(c) /\ ~Collected(c)
    /\ pool_results' = Append(pool_results, c)
    /\ UNCHANGED <<pool_cache, lock_owner, worker_pc, worker_task, call_idx, pending,
                   futures, cache_flushes, pool_pc>>
    /\ UNCHANGED outsidePool

\* what main waits for before line 814: as_completed has yielded every
\* future and the 'with ThreadPoolExecutor' block has joined the workers
AllWorkersDone == \A c \in PoolCountrySet : Completed(c) /\ Collected(c)

\* main, line 814: save_to_json(results)
SaveToJson ==
    /\ pool_pc = "collecting"
    /\ AllWorkersDone
    /\ pool_pc' = "saved"
    /\ UNCHANGED <<pool_cache, lock_owner, worker_pc, worker_task, call_idx, pending,
                   futures, pool_results, cache_flushes>>
    /\ UNCHANGED outsidePool

PoolNext ==
    \/ \E w \in Workers :
          \/ StartTask(w) \/ AcquireForRead(w) \/ ReadCache(w) \/ RemoteFetch(w)
          \/ AcquireForWrite(w) \/ WriteCache(w) \/ SaveCacheCall(w)
    \/ \E c \in PoolCountrySet : Collect(c)
    \/ SaveToJson

SpecPool == PoolInit /\ [][PoolNext]_vars

\* worker w is inside a block that reads or writes the cache map
AccessesCache(w) == worker_pc[w] \in {"reading", "writing"}

\* C13: during the parallel pass every access of a worker to the shared cache
\* map happens while that worker holds cache_lock, so no two workers are in
\* the cache map at the same time.
C13_CacheAccessUnderLock ==
    /\ \A w \in Workers : AccessesCache(w) => lock_owner = w
    /\ \A w1, w2 \in Workers : (AccessesCache(w1) /\ AccessesCache(w2)) => w1 = w2

\* one worker writes the cache map while another one waits for the lock
C13_Witness ==
    \E w1, w2 \in Workers :
        /\ worker_pc[w1] = "writing" /\ lock_owner = w1
        /\ worker_pc[w2] \in {"want_read", "want_write"}

\* worker w has seen a miss (or a forced refresh) and has not yet stored the
\* entry: lines 286-321, 426-448 and 451-464, 475-501
InMissWindow(w) == worker_pc[w] \in {"fetching", "want_write", "writing"}

C15_FlushedOnceAfterWorkers ==
    /\ \A w \in Workers : worker_pc[w] \notin {"save_cache", "blocked"}
    /\ pool_pc = "saved" => cache_flushes = 1

\* nothing but main can take a step: every worker thread waits for a lock that
\* is never released or has no call left to take, and main has seen every
\* finished future
Stalled ==
    /\ pool_pc = "collecting"
    /\ \A w \in Workers :
          worker_pc[w] = "blocked" \/ (worker_pc[w] = "idle" /\ pending = <<>>)
    /\ \A c \in PoolCountrySet : Completed(c) => Collected(c)

\* C17: a worker that never returns does not keep main from save_to_json:
\* when only main can go on, main is at (or can go to) line 814.
C17_StuckWorkerDoesNotHoldMain == Stalled => AllWorkersDone

-----------------------------------------------------------------------------
(* Status tiers, weights and the order of the forecasting chain.            *)

\* C21: the first-pass status is 'stable' iff score < 0.35, 'alert' iff
\* 0.35 <= score < 0.5, 'critical' iff score >= 0.5; a score equal to a
\* threshold is in the higher tier, and exactly one tier applies.
C21_StatusTiers ==
    turchin_instability # None =>
        LET score == turchin_instability.valor
            status == turchin_instability.status
        IN  /\ status \in {"stable", "alert", "critical"}
            /\ status = "stable" <=> RLt(score, Rat(35, 100))
            /\ status = "alert" <=> (RGe(score, Rat(35, 100)) /\ RLt(score, Rat(5, 10)))
            /\ status = "critical" <=> RGe(score, Rat(5, 10))

\* a country whose reported score is exactly the alert threshold
C21_Witness ==
    /\ turchin_instability # None
    /\ turchin_instability.valor = Rat(35, 100)
    /\ turchin_instability.status = "alert"

WeightSum(names, weights) == SumSeq([i \in 1..Len(names) |-> weights[names[i]]])

\* C22: every entity recomputed in the propagation pass is scored with
\* weights (border pressure included) that sum to exactly 1.0, and the
\* weights of the first-pass instability sum to exactly 1.0.
C22_WeightsSumToOne ==
    final_results # <<>> =>
        /\ WeightSum(main_factor_names, main_weights) = One
        /\ WeightSum(TurchinNames, TurchinWeights) = One

-----------------------------------------------------------------------------
(* generar_json.py: a run that finds the cache file of an earlier run.      *)

DigitChar(d) == CHOOSE c \in DOMAIN DigitOf : DigitOf[c] = d

\* str(year), as json.dump writes the key of an int
RECURSIVE IntToText(_)
IntToText(k) ==
    IF k < 10 THEN <<DigitChar(k)>> ELSE Append(IntToText(k \div 10), DigitChar(k % 10))

\* the dict of an ordered series
AsDict(series) ==
    [y \in Years(series) |-> series[CHOOSE j \in 1..Len(series) : series[j][1] = y][2]]

\* lines 311-319: the record built from 'historical', which keeps the order
\* in which the points were inserted
OrderedResult(series) ==
    LET r == FetchedResult(AsDict(series))
    IN  [historical |-> series, current |-> r.current, delta |-> r.delta,
         variance |-> r.variance]

\* json.dump of the record, line 272: the keys of 'historical' become
\* strings, the items keep their order, a float is written as its repr
json_dump(data) ==
    [historical |-> [i \in 1..Len(data.historical) |->
                        <<IntToText(data.historical[i][1]), data.historical[i][2]>>],
     current |-> data.current, delta |-> data.delta, variance |-> data.variance]

RECURSIVE SortByYear(_)
SortByYear(series) ==
    IF series = <<>> THEN <<>>
    ELSE LET first == CHOOSE j \in 1..Len(series) :
                          \A k \in 1..Len(series) : series[j][1] <= series[k][1]
         IN  <<series[first]>>
               \o SortByYear([k \in 1..(Len(series) - 1) |->
                                 IF k < first THEN series[k] ELSE series[k + 1]])

\* the keys back to int, in ascending order of the year
IntKeys_sorted(items) ==
    SortByYear([i \in 1..Len(SelectSeq(items, LAMBDA p : isdigit(p[1]))) |->
        <<ParseInt(SelectSeq(items, LAMBDA p : isdigit(p[1]))[i][1]),
          SelectSeq(items, LAMBDA p : isdigit(p[1]))[i][2]>>])

\* line 241: {int(k): v for k, v in historical.items() if k.isdigit()}
IntKeys(items) ==
    [i \in 1..Len(SelectSeq(items, LAMBDA p : isdigit(p[1]))) |->
        <<ParseInt(SelectSeq(items, LAMBDA p : isdigit(p[1]))[i][1]),
          SelectSeq(items, LAMBDA p : isdigit(p[1]))[i][2]>>]

\* load_cache, lines 229-264, for the one entry of the file: None stands for
\* the empty cache (no file, or a value that is not a number)
load_cache(file) ==
    IF file = None THEN None
    ELSE LET hist == IntKeys(file.historical)
         IN  IF /\ \A i \in 1..Len(hist) : IsRat(hist[i][2])
                /\ IsRat(file.current) /\ IsRat(file.delta) /\ IsRat(file.variance)
             THEN [historical |-> hist, current |-> file.current, delta |-> file.delta,
                   variance |-> file.variance]
             ELSE None

\* the series a provider serves: one to MaxLen points
ProviderSeries == UNION {SeriesOfLen(n) : n \in 1..MaxLen}

\* the run starts without a cache file, or with the file an immediately
\* preceding run leaves when its cache is written out by json.dump
RerunInit ==
    /\ PropIdle /\ ScoreIdle /\ FetchIdle /\ ForecastIdle /\ PoolIdle /\ DatasetIdle /\ ShockIdle /\ EudIdle
    /\ provider_series \in ProviderSeries
    /\ cache_file \in {None, json_dump(OrderedResult(provider_series))}
    /\ rerun_cache = None
    /\ rerun_result = None
    /\ rerun_pc = "start"

\* __init__, line 33
RerunLoad ==
    /\ rerun_pc = "start"
    /\ rerun_cache' = load_cache(cache_file)
    /\ rerun_pc' = "loaded"
    /\ UNCHANGED <<provider_series, cache_file, rerun_result>>
    /\ UNCHANGED outsideRerun

\* fetch_world_bank_data, lines 279-324: the entry of the file is less than a
\* day old and is returned; without it the series is requested and stored,
\* and the call waits in save_cache for the lock it holds
RerunFetch ==
    /\ rerun_pc = "loaded"
    /\ IF rerun_cache # None
       THEN /\ rerun_result' = rerun_cache
            /\ rerun_pc' = "served"
            /\ UNCHANGED rerun_cache
       ELSE /\ rerun_cache' = OrderedResult(provider_series)
            /\ rerun_pc' = "blocked"
            /\ UNCHANGED rerun_result
    /\ UNCHANGED <<provider_series, cache_file>>
    /\ UNCHANGED outsideRerun

\* what forecast_indicator can answer for a series: the value of the guards,
\* or what a fitted stage or the moving average gives
ChainOutputs(v, hist) ==
    IF EarlyReturn(v, hist) # None THEN {EarlyReturn(v, hist)}
    ELSE {ArimaReturn(v, hist, f) : f \in LibraryForecasts}
           \cup {Expm1(f[Len(f)]) : f \in LibraryForecasts}
           \cup {MovingAverageReturn(hist)}

\* process_country, lines 727-734, for a record with a history: the value of
\* the indicator, its delta and its forecast
RerunResolve ==
    /\ rerun_pc = "served"
    /\ \E f \in ChainOutputs("generar_json", rerun_result.historical) :
          rerun_result' = [value |-> rerun_result.current,
                           delta |-> rerun_result.delta,
                           forecast |-> f,
                           historical |-> rerun_result.historical]
    /\ rerun_pc' = "resolved"
    /\ UNCHANGED <<provider_series, cache_file, rerun_cache>>
    /\ UNCHANGED outsideRerun

RerunNext == RerunLoad \/ RerunFetch \/ RerunResolve

SpecRerun == RerunInit /\ [][RerunNext]_vars

\* what process_country and forecast_indicator read of a returned record:
\* the current value, the delta, the value answered for a short or degenerate
\* series, and the years and values handed to the fitted models
ScoreInputs(data) ==
    [current |-> data.current,
     delta |-> data.delta,
     early |-> EarlyReturn("generar_json", data.historical),
     years |-> Years(data.historical),
     values |-> ValuesByYear(data.historical)]

-----------------------------------------------------------------------------
(* obtiene_historical_data_2020_2025.py: one cell of the historical         *)
(* dataset, from the request to the stored series.                          *)

indicators ==
    {<<"SI", "POV", "GINI">>, <<"SL", "UEM", "1524", "ZS">>, <<"FP", "CPI", "TOTL", "ZG">>,
     <<"SL", "UEM", "NEET", "ZS">>, <<"SE", "TER", "ENRR">>, <<"GE", "EST">>, <<"PV", "EST">>,
     <<"CC", "EST">>, <<"VA", "EST">>, <<"RL", "EST">>, <<"RQ", "EST">>}

imf_indicators ==
    {<<"PCPI_A_SA_X_PCT">>, <<"NGDPDPC_SA_XDC">>, <<"LUR_SA_X_PT">>, <<"NGDP_RPCH">>}

\* default_indicator_values of HistoricalDataGenerator, lines 49-65
historical_default_values ==
    [k \in {<<"GINI">>, <<"1524", "ZS">>, <<"TOTL", "ZG">>, <<"NEET", "ZS">>, <<"TER", "ENRR">>,
            <<"GE", "EST">>, <<"PV", "EST">>, <<"CC", "EST">>, <<"VA", "EST">>, <<"RL", "EST">>,
            <<"RQ", "EST">>, <<"PCPI_A_SA_X_PCT">>, <<"NGDPDPC_SA_XDC">>, <<"LUR_SA_X_PT">>,
            <<"NGDP_RPCH">>} |->
        CASE k = <<"GINI">>            -> [USA |-> RInt(40), default |-> RInt(40)]
          [] k = <<"1524", "ZS">>      -> [default |-> RInt(20)]
          [] k = <<"TOTL", "ZG">>      -> [default |-> RInt(3)]
          [] k = <<"NEET", "ZS">>      -> [default |-> RInt(10)]
          [] k = <<"TER", "ENRR">>     -> [default |-> RInt(60)]
          [] k = <<"PCPI_A_SA_X_PCT">> -> [default |-> RInt(3)]
          [] k = <<"NGDPDPC_SA_XDC">>  -> [default |-> RInt(10000)]
          [] k = <<"LUR_SA_X_PT">>     -> [default |-> RInt(5)]
          [] k = <<"NGDP_RPCH">>       -> [default |-> RInt(2)]
          [] OTHER                     -> [default |-> Zero]]

\* parts[-i:]
LastParts(parts, i) ==
    SubSeq(parts, IF Len(parts) > i THEN Len(parts) - i + 1 ELSE 1, Len(parts))

\* the key looked up with the last part of the code only
get_default_key_lastpart(code) ==
    IF LastParts(code, 1) \in DOMAIN historical_default_values
    THEN [key |-> LastParts(code, 1)] ELSE None

\* get_default_key, lines 67-74: the last one, two or three parts of the code
get_default_key(code) ==
    IF \E i \in 1..3 : LastParts(code, i) \in DOMAIN historical_default_values
    THEN LET first == CHOOSE i \in 1..3 :
                          /\ LastParts(code, i) \in DOMAIN historical_default_values
                          /\ \A j \in 1..(i - 1) :
                                LastParts(code, j) \notin DOMAIN historical_default_values
         IN  [key |-> LastParts(code, first)]
    ELSE None

\* get_default_value, lines 76-80
get_default_value(code, cc) ==
    LET default_key == get_default_key(code)
    IN  IF default_key # None
        THEN LET entry == historical_default_values[default_key.key]
             IN  IF cc \in DOMAIN entry THEN entry[cc] ELSE GetOr(entry, "default", Zero)
        ELSE Zero

\* safe_numeric_conversion, lines 82-96: a finite float, or None
safe_numeric_conversion(value) ==
    IF value = None THEN None
    ELSE IF "text" \in DOMAIN value
         THEN IF isdigit(value.text) THEN RInt(ParseInt(value.text)) ELSE None
         ELSE value

current_year == 2025

max_retries == 3

\* ---- what the providers answer ----
DatasetYearTexts == {<<"2", "0", "2", "4">>, <<"2", "0", "2", "3">>, <<"2", "0", "2", "0", "Q", "1">>}

DatasetDates == {None} \cup {[text |-> y] : y \in DatasetYearTexts}

DatasetValues == {None, RInt(30), [text |-> <<"n", "a">>]}

\* the elements of data[1]: null, records with and without 'date' and 'value'
WorldBankItems ==
    {None}
      \cup {[date |-> d, value |-> v] : d \in DatasetDates, v \in DatasetValues}
      \cup {[value |-> v] : v \in DatasetValues}
      \cup {[date |-> d] : d \in DatasetDates}

\* decoded World Bank bodies: null or empty, a lone message element, a JSON
\* object, a null page, a page of items
WorldBankBodies ==
    {[kind |-> "empty"], [kind |-> "message"], [kind |-> "object"], [kind |-> "null_page"]}
      \cup {[kind |-> "page", items |-> items] :
               items \in UNION {[1..n -> WorldBankItems] : n \in 1..MaxItems}}

\* decoded IMF bodies: null or empty, a list, an object without 'values',
\* with a null 'values', without the series, with a list as series, with the
\* series as (year, value) items
ImfBodies ==
    {[kind |-> "empty"], [kind |-> "list"], [kind |-> "no_values"], [kind |-> "null_values"],
     [kind |-> "no_series"], [kind |-> "list_series"]}
      \cup {[kind |-> "series", items |-> items] :
               items \in UNION {[1..n -> DatasetYearTexts \X DatasetValues] : n \in 0..MaxItems}}

\* one pass of the loop of fetch_with_retry: the failures, or a decoded body
RetryOutcomes(provider) ==
    {[kind |-> "timeout"], [kind |-> "http_error"], [kind |-> "status_204"],
     [kind |-> "bad_json"]}
      \cup {[kind |-> "body", data |-> b] :
               b \in IF provider = "world_bank" THEN WorldBankBodies ELSE ImfBodies}

\* lines 147-155 for the items from position i on: the dict when the loop
\* ends or an exception is caught by line 154, or the exception that leaves
RECURSIVE ParseWorldBankItems(_, _, _)
ParseWorldBankItems(items, i, acc) ==
    IF i > Len(items) THEN [dict |-> acc]
    ELSE LET item == items[i]
         IN  IF item = None THEN [raise |-> "AttributeError"]
             ELSE IF GetOr(item, "value", None) = None
                  THEN ParseWorldBankItems(items, i + 1, acc)
             ELSE IF "date" \notin DOMAIN item THEN [dict |-> acc]
             ELSE IF safe_numeric_conversion(item.value) = None
                  THEN ParseWorldBankItems(items, i + 1, acc)
             ELSE IF item.date = None THEN [dict |-> acc]
             ELSE IF ~isdigit(item.date.text) THEN [raise |-> "ValueError"]
             ELSE ParseWorldBankItems(items, i + 1,
                      DictSet(acc, ParseInt(item.date.text), safe_numeric_conversion(item.value)))

\* lines 178-184
RECURSIVE ParseImfItems(_, _, _)
ParseImfItems(items, i, acc) ==
    IF i > Len(items) THEN [dict |-> acc]
    ELSE LET year_str == items[i][1]
             numeric_value == safe_numeric_conversion(items[i][2])
         IN  IF numeric_value = None THEN ParseImfItems(items, i + 1, acc)
             ELSE IF ~isdigit(year_str) THEN [raise |-> "ValueError"]
             ELSE ParseImfItems(items, i + 1, DictSet(acc, ParseInt(year_str), numeric_value))

\* lines 157-161 and 188-192: the default for the latest year when nothing
\* was parsed
WithDefault(parsed, code, cc, end_year) ==
    IF "raise" \in DOMAIN parsed THEN parsed
    ELSE IF parsed.dict = EmptyDict /\ end_year >= 2020
         THEN [dict |-> DictSet(EmptyDict, end_year, get_default_value(code, cc))]
         ELSE parsed

\* fetch_world_bank_historical, lines 132-163
fetch_world_bank_historical(data, cc, code, end_year) ==
    IF data = None \/ data.kind = "empty" THEN [dict |-> EmptyDict]
    ELSE WithDefault(
             CASE data.kind = "page" -> ParseWorldBankItems(data.items, 1, EmptyDict)
               [] OTHER              -> [dict |-> EmptyDict],
             code, cc, end_year)

\* fetch_imf_historical, lines 165-194
fetch_imf_historical(data, cc, code, end_year) ==
    IF data = None \/ data.kind = "empty" THEN [dict |-> EmptyDict]
    ELSE WithDefault(
             CASE data.kind \in {"list", "null_values", "list_series"} ->
                      [raise |-> "AttributeError"]
               [] data.kind = "series" -> ParseImfItems(data.items, 1, EmptyDict)
               [] OTHER                -> [dict |-> EmptyDict],
             code, cc, end_year)

DatasetInit ==
    /\ PropIdle /\ ScoreIdle /\ FetchIdle /\ ForecastIdle /\ PoolIdle /\ RerunIdle /\ ShockIdle /\ EudIdle
    /\ dataset_provider \in {"world_bank", "imf"}
    /\ dataset_country \in {"USA", "CHN"}
    /\ dataset_code \in IF dataset_provider = "world_bank" THEN indicators ELSE imf_indicators
    /\ retry_attempt = 0
    /\ fetched = None
    /\ historical_data = None
    /\ dataset_cell = None
    /\ dataset_pc = "request"

\* fetch_with_retry, lines 98-130: one pass of the loop; a decoded body is
\* returned, every failure is tried again until max_retries passes are made
FetchWithRetry ==
    /\ dataset_pc = "request"
    /\ \E outcome \in RetryOutcomes(dataset_provider) :
          IF outcome.kind = "body"
          THEN /\ fetched' = outcome.data
               /\ dataset_pc' = "parse"
               /\ UNCHANGED retry_attempt
          ELSE IF retry_attempt + 1 < max_retries
          THEN /\ retry_attempt' = retry_attempt + 1
               /\ UNCHANGED <<fetched, dataset_pc>>
          ELSE /\ dataset_pc' = "parse"
               /\ UNCHANGED <<fetched, retry_attempt>>
    /\ UNCHANGED <<dataset_provider, dataset_country, dataset_code, historical_data, dataset_cell>>
    /\ UNCHANGED outsideDataset

\* generate_historical_dataset, lines 228 and 258: the call of
\* fetch_world_bank_historical or fetch_imf_historical
FetchHistorical ==
    /\ dataset_pc = "parse"
    /\ historical_data' =
          IF dataset_provider = "world_bank"
          THEN fetch_world_bank_historical(fetched, dataset_country, dataset_code, current_year)
          ELSE fetch_imf_historical(fetched, dataset_country, dataset_code, current_year)
    /\ dataset_pc' = "store"
    /\ UNCHANGED <<dataset_provider, dataset_country, dataset_code, retry_attempt, fetched,
                   dataset_cell>>
    /\ UNCHANGED outsideDataset

\* generate_historical_dataset, lines 229-241 and 259-271: the series is
\* stored; an empty one and an exception store the default for current_year
StoreCell ==
    /\ dataset_pc = "store"
    /\ dataset_cell' =
          IF "raise" \notin DOMAIN historical_data /\ historical_data.dict # EmptyDict
          THEN historical_data.dict
          ELSE DictSet(EmptyDict, current_year,
                       get_default_value(dataset_code, dataset_country))
    /\ dataset_pc' = "stored"
    /\ UNCHANGED <<dataset_provider, dataset_country, dataset_code, retry_attempt, fetched,
                   historical_data>>
    /\ UNCHANGED outsideDataset

DatasetNext == FetchWithRetry \/ FetchHistorical \/ StoreCell

SpecDataset == DatasetInit /\ [][DatasetNext]_vars

\* the entry of the default table configured for a code: the one whose key
\* is the end of the code
ConfiguredHistoricalDefault(code, cc) ==
    LET key == CHOOSE k \in DOMAIN historical_default_values : IsSuffix(k, code)
        entry == historical_default_values[key]
    IN  IF cc \in DOMAIN entry THEN entry[cc] ELSE entry.default

IsNumber(v) == v # None /\ ("text" \in DOMAIN v => isdigit(v.text))

\* the provider's answer holds a point with a year and a numeric value
HasUsablePoint(data) ==
    /\ data # None
    /\ \/ /\ data.kind = "page"
          /\ \E i \in 1..Len(data.items) :
                LET item == data.items[i]
                IN  /\ item # None
                    /\ "value" \in DOMAIN item /\ IsNumber(item.value)
                    /\ "date" \in DOMAIN item /\ item.date # None /\ isdigit(item.date.text)
       \/ /\ data.kind = "series"
          /\ \E i \in 1..Len(data.items) :
                isdigit(data.items[i][1]) /\ IsNumber(data.items[i][2])

\* C24: every cell of the dataset holds a non-empty series of numbers; when
\* the provider gave no usable point (failure, empty or non-numeric data, an
\* exception while parsing) the cell is the single point {latest year:
\* configured default of the code for the country}.
C24_CellDefinedOrDefault ==
    dataset_pc = "stored" =>
        /\ dataset_cell # EmptyDict
        /\ \A y \in DOMAIN dataset_cell : IsRat(dataset_cell[y])
        /\ ~HasUsablePoint(fetched) =>
              dataset_cell = DictSet(EmptyDict, current_year,
                                     ConfiguredHistoricalDefault(dataset_code, dataset_country))

\* every attempt of the request for youth unemployment failed and the cell
\* holds the default of '1524.ZS'
C24_Witness ==
    /\ dataset_pc = "stored"
    /\ fetched = None /\ retry_attempt = max_retries - 1
    /\ dataset_code = <<"SL", "UEM", "1524", "ZS">>
    /\ dataset_cell = DictSet(EmptyDict, current_year, RInt(20))

\* C25: no worker asks for cache_lock while it holds it: a worker that
\* enters save_cache, whose first statement takes the lock, does not own the
\* lock, and no worker waits for a lock it owns itself.
C25_NoSelfAcquire ==
    \A w \in Workers : lock_owner = w => worker_pc[w] \in {"reading", "writing"}

\* the series is too short, or degenerate: too many gaps, a jump above three
\* standard deviations, next to no variance
GuardApplies(v, hist) ==
    \/ Len(hist) < MinPoints(v)
    \/ LET values == ValuesByYear(hist)
       IN  IF v = "generar_json"
           THEN HasGaps(hist) \/ HasOutliers(values) \/ LowVariance(values)
           ELSE RLt(VarOf(values), Rat(1, 10000))

\* C26: forecast_indicator goes through its stages in one order: the guards,
\* the ARIMA orders in list order, exponential smoothing, the moving
\* average.  A stage is entered only when the guards did not apply and every
\* stage before it failed, and the call returns the value of the stage it
\* is in.
C26_OrderedFallbackChain ==
    [][forecast_pc' # forecast_pc \/ order_idx' # order_idx =>
        CASE forecast_pc = "start" ->
                 /\ order_idx' = order_idx
                 /\ IF GuardApplies(variant, historical)
                    THEN forecast_pc' = "returned" /\ forecast' = EarlyReturn(variant, historical)
                    ELSE forecast_pc' = "arima" /\ order_idx = 1
          [] forecast_pc = "arima" ->
                 \/ /\ forecast_pc' = "returned" /\ order_idx' = order_idx
                    /\ \E f \in LibraryForecasts :
                          forecast' = ArimaReturn(variant, historical, f)
                 \/ /\ forecast_pc' = "arima" /\ order_idx' = order_idx + 1
                    /\ order_idx' <= Len(orders(variant))
                 \/ /\ forecast_pc' = "smoothing" /\ order_idx = Len(orders(variant))
          [] forecast_pc = "smoothing" ->
                 \/ /\ forecast_pc' = "returned"
                    /\ \E f \in LibraryForecasts : forecast' = Expm1(f[Len(f)])
                 \/ forecast_pc' = "moving_average"
          [] forecast_pc = "moving_average" ->
                 forecast_pc' = "returned" /\ forecast' = MovingAverageReturn(historical)
          [] OTHER -> FALSE]_vars

\* the first ARIMA order failed and the second one answered
C26_Witness ==
    /\ variant = "generar_json"
    /\ forecast_pc = "returned"
    /\ order_idx = 2
    /\ ~GuardApplies(variant, historical)

\* the years a run may take place in: the year after the newest point of the
\* sampled series, and the year after that
RunYears == {2025, 2026}

\* C27 (as stated): the value of an indicator handed to the scoring is the
\* newest point of the series when that point is of the current period or the
\* one before, and the answer of the forecasting chain when it is older.
C27_StaleSeriesUsesForecast ==
    rerun_pc = "resolved" =>
        \A t \in RunYears :
            IF MaxOf(Years(rerun_result.historical)) >= t - 1
            THEN rerun_result.value = MostRecentValue(rerun_result.historical)
            ELSE rerun_result.value = rerun_result.forecast

-----------------------------------------------------------------------------
(* Further properties of fetch_world_bank_data.                             *)

\* the cache holds an entry for the key that is younger than CacheDays
FreshEntry ==
    /\ cache_key \in DOMAIN cache
    /\ DaysBetween(cache[cache_key].timestamp, now) < CacheDays

\* C28 (as stated): whatever record the call returns, fetched or default, is
\* in the cache when the call returns, with a date that makes the next call
\* for the same key a cache hit.
C28_ReturnedValueIsCached ==
    fetch_pc = "returned" => (FreshEntry /\ cache[cache_key].data = hist_data)

\* C29: with a fresh entry for the key the call returns the cached data,
\* makes no request and leaves the cache as it is; save_cache is not called.
C29_FreshHitNoSideEffect ==
    [][(fetch_pc = "start" /\ FreshEntry) =>
          /\ fetch_pc' = "returned"
          /\ hist_data' = cache[cache_key].data
          /\ cache' = cache
          /\ attempt' = attempt /\ response' = response /\ fetch_error' = fetch_error
          /\ cache_lock' = "free"]_vars

\* a call answered from an entry that is six days old
C29_Witness ==
    /\ fetch_pc = "returned"
    /\ FreshEntry
    /\ DaysBetween(cache[cache_key].timestamp, now) = CacheDays - 1
    /\ hist_data = CachedData
    /\ attempt = 0 /\ response = None /\ fetch_error = None

\* C30 (as stated): a pass is followed by another one only when that pass
\* itself got an HTTP 429; a pass that got no response ends the loop.
C30_RetryOnlyOnOwn429 ==
    (fetch_pc = "attempt" /\ attempt > 0) =>
        (fetch_error.type = "HTTPError" /\ response.status_code = 429)

-----------------------------------------------------------------------------
(* generar_json.py: one call of get_gdelt_shock_factor, lines 418-466.      *)

\* __init__, lines 37-138, for two of its keys
gdelt_country_mapping ==
    [c \in {"USA", "CHN"} |->
        IF c = "USA" THEN <<"United States", "USA", "US">> ELSE <<"China", "CN">>]

\* line 426
country_names(cc) ==
    IF cc \in DOMAIN gdelt_country_mapping THEN gdelt_country_mapping[cc] ELSE <<cc>>

\* line 445
ShockTier(events) ==
    IF events > 100 THEN Rat(25, 10) ELSE IF events > 20 THEN Rat(18, 10) ELSE One

\* the number of articles of an answer (the request asks for at most 250)
ArticleCounts == {0, 20, 21, 100, 101}

\* what one request can end in: no answer at all, an HTTP error status, an
\* answer that is not JSON by its header, one whose body does not decode, a
\* decoded dict with or without 'articles', a decoded list, 'articles': null
GdeltOutcomes ==
    {[kind |-> "no_response"], [kind |-> "non_json"], [kind |-> "bad_json"],
     [kind |-> "no_articles_key"], [kind |-> "list_body"], [kind |-> "null_articles"]}
      \cup {[kind |-> "http_error", status_code |-> s] : s \in {429, 500}}
      \cup {[kind |-> "articles", count |-> n] : n \in ArticleCounts}

\* the entry of the key in the cache file: none, written today, or a day old
GdeltCacheStates == {None} \cup {[data |-> Rat(18, 10), age |-> a] : a \in {0, 1}}

ShockInit ==
    /\ PropIdle /\ ScoreIdle /\ FetchIdle /\ ForecastIdle /\ PoolIdle /\ RerunIdle
    /\ DatasetIdle /\ EudIdle
    /\ shock_country \in DOMAIN gdelt_country_mapping
    /\ force_refresh \in BOOLEAN
    /\ gdelt_cache \in GdeltCacheStates
    /\ gdelt_lock = "free"
    /\ name_idx = 0
    /\ gdelt_attempt = 0
    /\ gdelt_response = None
    /\ total_events = None
    /\ gdelt_factor = None
    /\ shock_returned = None
    /\ shock_raised = None
    /\ shock_pc = "start"

\* lines 419-428: the cache read under the lock, then the locals of the loops
ShockCheckCache ==
    /\ shock_pc = "start"
    /\ gdelt_lock = "free"
    /\ IF ~force_refresh /\ gdelt_cache # None /\ gdelt_cache.age < 1
       THEN /\ shock_returned' = gdelt_cache.data
            /\ shock_pc' = "returned"
            /\ UNCHANGED <<name_idx, gdelt_factor>>
       ELSE /\ name_idx' = 1
            /\ gdelt_factor' = One
            /\ shock_pc' = "request"
            /\ UNCHANGED shock_returned
    /\ UNCHANGED <<shock_country, force_refresh, gdelt_cache, gdelt_lock, gdelt_attempt,
                   gdelt_response, total_events, shock_raised>>
    /\ UNCHANGED outsideShock

\* 'break', or the inner loop running out: the next country name, or line 461
NextName ==
    IF name_idx < Len(country_names(shock_country))
    THEN /\ name_idx' = name_idx + 1
         /\ gdelt_attempt' = 0
         /\ shock_pc' = "request"
    ELSE /\ shock_pc' = "write"
         /\ UNCHANGED <<name_idx, gdelt_attempt>>

\* 'continue', or a handler that ends without 'break'
NextAttempt ==
    IF gdelt_attempt + 1 < attempts
    THEN /\ gdelt_attempt' = gdelt_attempt + 1
         /\ shock_pc' = "request"
         /\ UNCHANGED name_idx
    ELSE NextName

\* lines 451-457: the handler of RequestException, given the binding of
\* 'response' when the exception arrives
OnGdeltRequestException(resp) ==
    /\ gdelt_response' = resp
    /\ IF resp # None /\ resp.status_code = 429 THEN NextAttempt ELSE NextName
    /\ UNCHANGED <<gdelt_cache, gdelt_lock, total_events, gdelt_factor, shock_raised>>

\* lines 442-448 for a decoded dict, up to the call of save_cache: the lock is
\* taken at line 446 and is held while save_cache runs
OnArticles(count) ==
    /\ gdelt_response' = [status_code |-> 200]
    /\ total_events' = count
    /\ gdelt_factor' = ShockTier(count)
    /\ gdelt_lock = "free"
    /\ gdelt_lock' = "held"
    /\ gdelt_cache' = [data |-> ShockTier(count), age |-> 0]
    /\ shock_pc' = "save_cache"
    /\ UNCHANGED <<name_idx, gdelt_attempt, shock_raised>>

\* line 442 or 444 raising an exception no handler of the loop catches
OnUncaught(type) ==
    /\ gdelt_response' = [status_code |-> 200]
    /\ shock_raised' = [type |-> type]
    /\ shock_pc' = "raised"
    /\ UNCHANGED <<name_idx, gdelt_attempt, gdelt_cache, gdelt_lock, total_events, gdelt_factor>>

\* lines 433-460: one pass of the retry loop for the current country name.
\* The error of response.json() is a RequestException with requests 2.27 and
\* later (first handler, 'break') and a json.JSONDecodeError before (second
\* handler, next pass).
GdeltRequest ==
    /\ shock_pc = "request"
    /\ \E outcome \in GdeltOutcomes :
          CASE outcome.kind = "no_response" -> OnGdeltRequestException(gdelt_response)
            [] outcome.kind = "http_error"  ->
                   OnGdeltRequestException([status_code |-> outcome.status_code])
            [] outcome.kind = "non_json"    ->
                   /\ gdelt_response' = [status_code |-> 200]
                   /\ NextAttempt
                   /\ UNCHANGED <<gdelt_cache, gdelt_lock, total_events, gdelt_factor,
                                  shock_raised>>
            [] outcome.kind = "bad_json"    ->
                   \/ OnGdeltRequestException([status_code |-> 200])
                   \/ /\ gdelt_response' = [status_code |-> 200]
                      /\ NextAttempt
                      /\ UNCHANGED <<gdelt_cache, gdelt_lock, total_events, gdelt_factor,
                                     shock_raised>>
            [] outcome.kind = "articles"        -> OnArticles(outcome.count)
            [] outcome.kind = "no_articles_key" -> OnArticles(0)
            [] outcome.kind = "list_body"       -> OnUncaught("AttributeError")
            [] outcome.kind = "null_articles"   -> OnUncaught("TypeError")
    /\ UNCHANGED <<shock_country, force_refresh, shock_returned>>
    /\ UNCHANGED outsideShock

\* lines 462-464: no name was answered; the default is stored under the lock
WriteDefault ==
    /\ shock_pc = "write"
    /\ gdelt_lock = "free"
    /\ gdelt_lock' = "held"
    /\ gdelt_cache' = [data |-> gdelt_factor, age |-> 0]
    /\ shock_pc' = "save_cache"
    /\ UNCHANGED <<shock_country, force_refresh, name_idx, gdelt_attempt, gdelt_response,
                   total_events, gdelt_factor, shock_returned, shock_raised>>
    /\ UNCHANGED outsideShock

\* save_cache, lines 266-274, called at lines 448 and 464: 'with
\* self.cache_lock' waits for the lock; the caller returns shock_factor at line
\* 449 or 466 once save_cache is back
GdeltSaveCache ==
    /\ shock_pc = "save_cache"
    /\ IF gdelt_lock = "free"
       THEN /\ shock_returned' = gdelt_factor
            /\ shock_pc' = "returned"
       ELSE /\ shock_pc' = "blocked"
            /\ UNCHANGED shock_returned
    /\ UNCHANGED <<shock_country, force_refresh, gdelt_cache, gdelt_lock, name_idx,
                   gdelt_attempt, gdelt_response, total_events, gdelt_factor, shock_raised>>
    /\ UNCHANGED outsideShock

ShockNext == ShockCheckCache \/ GdeltRequest \/ WriteDefault \/ GdeltSaveCache

SpecShock == ShockInit /\ [][ShockNext]_vars

-----------------------------------------------------------------------------
(* Stability status, shock factor and the entity set of the second pass.    *)

C32_RefreshedShockFactorTiers ==
    force_refresh =>
        /\ shock_raised = None
        /\ shock_pc # "blocked"
        /\ shock_pc = "returned" =>
              /\ shock_returned \in {One, Rat(18, 10), Rat(25, 10)}
              /\ shock_returned = IF total_events = None THEN One ELSE ShockTier(total_events)

C34_EntitySetPreserved ==
    main_pc = "saved" =>
        \A c \in DOMAIN paises_data.results :
            /\ Cardinality({i \in 1..Len(final_results) : final_results[i] = c}) = 1
            /\ initial_results[c].indicators = paises_data.results[c].indicators

\* C35 (as stated): the second pass labels a final score above 0.6 'fragile',
\* one above 0.4 and at most 0.6 'at_risk', and any other score 'stable'.
C35_ThreeReachableTiers ==
    final_results # <<>> =>
        LET status == initial_results[Last(final_results)].inestabilidad_turchin.status
        IN  status = IF RGt(instability_score, Rat(6, 10)) THEN "fragile"
                     ELSE IF RGt(instability_score, Rat(4, 10)) THEN "at_risk"
                     ELSE "stable"

-----------------------------------------------------------------------------
(* eudaimonia_predictor.py: one run of generate_indices_json, lines 260-388. *)
(* Dates are day numbers relative to the day of the run.                    *)

\* line 280: the day the fresh data are asked for lies two days back
FreshDelay == 2

\* _clean_old_data, line 251: daily entries older than this are dropped
KeepDays == 30

from_date == 0 - FreshDelay

\* country_names, lines 32-85, for two of its keys; line 286
EudName(code) ==
    CASE code = "USA" -> "United States"
      [] code = "CHN" -> "China"
      [] OTHER -> code

\* the lists the run is started with (COUNTRIES_TO_PROCESS, lines 396-398)
EudCountryLists == {<<"USA">>, <<"USA", "CHN">>, <<"CHN", "USA">>}

\* what _fetch_historical_cpi / _fetch_historical_gpi return: {} after any
\* failure, else the latest score by country name (lines 90-132, 134-172)
CpiTables ==
    {EmptyDict,
     [nm \in {"United States", "China"} |->
        [score |-> IF nm = "China" THEN RInt(42) ELSE RInt(69)]]}

GpiTables ==
    {EmptyDict,
     [nm \in {"United States", "China"} |->
        [score |-> IF nm = "China" THEN Rat(21, 10) ELSE Rat(26, 10)]]}

DailyEntry(cor, ten, available) ==
    [corruption_index |-> cor, tension_index |-> ten, data_available |-> available]

\* records of an output file written earlier: no daily entry yet, an entry
\* for the asked day with data, one for the asked day without data next to an
\* entry that is forty days old
ExistingRecords ==
    { [daily_data |-> dd,
       historical |-> [corruption_index |-> RInt(31), tension_index |-> Rat(26, 10)],
       eudaimonia_predictor |-> RInt(50),
       data_source |-> "CPI/GPI (historical only)"] :
        dd \in { EmptyDict,
                 [d \in {from_date} |-> DailyEntry(RInt(50), RInt(25), "true")],
                 [d \in {from_date, 0 - 40} |->
                    IF d = from_date THEN DailyEntry(Zero, Zero, "false")
                    ELSE DailyEntry(RInt(10), RInt(10), "true")] } }

\* _load_existing_data, lines 239-247: 'results' of the file; {} without a file
ExistingFiles ==
    UNION {[S -> ExistingRecords] : S \in SUBSET {"USA", "CHN"}}

\* what the articles of a day come to at lines 308-322: the counts of the
\* matching articles and of all articles, or an exception inside the 'try'
FreshOutcomes ==
    {[corruption_count |-> 0, tension_count |-> 0, total_count |-> 0],
     [corruption_count |-> 0, tension_count |-> 0, total_count |-> 3],
     [corruption_count |-> 1, tension_count |-> 0, total_count |-> 3],
     [corruption_count |-> 2, tension_count |-> 2, total_count |-> 2]}
      \cup {[raise |-> "AttributeError"]}

EudInit ==
    /\ PropIdle /\ ScoreIdle /\ FetchIdle /\ ForecastIdle /\ PoolIdle /\ RerunIdle
    /\ DatasetIdle /\ ShockIdle
    /\ eud_country_codes \in EudCountryLists
    /\ has_fresh_data_source \in BOOLEAN
    /\ historical_cpi = <<>>
    /\ historical_gpi = <<>>
    /\ existing_results \in ExistingFiles
    /\ all_data = <<>>
    /\ eud_idx = 0
    /\ fresh_fetched = {}
    /\ output_file = None
    /\ eud_raised = None
    /\ eud_pc = "start"

\* lines 265-283: the two tables and the existing file are read
EudLoad ==
    /\ eud_pc = "start"
    /\ historical_cpi' \in CpiTables
    /\ historical_gpi' \in GpiTables
    /\ all_data' = existing_results
    /\ eud_idx' = 1
    /\ eud_pc' = "loop"
    /\ UNCHANGED <<eud_country_codes, has_fresh_data_source, existing_results, fresh_fetched,
                   output_file, eud_raised>>
    /\ UNCHANGED outsideEud

\* lines 301-331: the entry of the day from the articles
FreshEntry_of(outcome) ==
    LET counted == "raise" \notin DOMAIN outcome /\ outcome.total_count > 0
        fresh_corruption_index ==
            IF has_fresh_data_source /\ counted
            THEN RMul(RDiv(RInt(outcome.corruption_count), RInt(outcome.total_count)), RInt(100))
            ELSE Zero
        fresh_tension_index ==
            IF has_fresh_data_source /\ counted
            THEN RMul(RDiv(RInt(outcome.tension_count), RInt(outcome.total_count)), RInt(100))
            ELSE Zero
    IN  DailyEntry(Round2(fresh_corruption_index), Round2(fresh_tension_index),
                   IF ~has_fresh_data_source THEN "null"
                   ELSE IF RGt(fresh_corruption_index, Zero) \/ RGt(fresh_tension_index, Zero)
                        THEN "true" ELSE "false")

\* lines 345-361: the predictor from the daily entries with data, else from
\* the historical scores
Predictor(daily_data, hist_corruption, hist_tension) ==
    LET recent == {d \in DOMAIN daily_data : daily_data[d].data_available = "true"}
        count == RInt(Cardinality(recent))
        avg_cor == RDiv(SumValues([d \in recent |-> daily_data[d].corruption_index]), count)
        avg_ten == RDiv(SumValues([d \in recent |-> daily_data[d].tension_index]), count)
        norm_cor == IF recent # {} THEN RDiv(avg_cor, RInt(100))
                    ELSE IF hist_corruption # None THEN RDiv(hist_corruption, RInt(100))
                    ELSE Zero
        norm_ten == IF recent # {} THEN RDiv(avg_ten, RInt(100))
                    ELSE IF hist_tension # None THEN RDiv(hist_tension, Rat(25, 10))
                    ELSE Zero
        eudaimonia_predictor ==
            RSub(RInt(100), RMul(RDiv(RAdd(norm_cor, norm_ten), RInt(2)), RInt(100)))
    IN  Round2(RMax(Zero, RMin(RInt(100), eudaimonia_predictor)))

\* lines 285-367: one iteration of the loop over country_codes.  country_data
\* is the dict held by all_data when the code has a record, else a new dict
\* that enters all_data at line 367.  Line 341 reads country_data["historical"],
\* which nothing in the loop creates.
EudProcessCountry ==
    /\ eud_pc = "loop"
    /\ eud_idx <= Len(eud_country_codes)
    /\ LET code == eud_country_codes[eud_idx]
           name == EudName(code)
           known == code \in DOMAIN all_data
           daily_before == IF known THEN all_data[code].daily_data ELSE EmptyDict
           skip == /\ from_date \in DOMAIN daily_before
                   /\ daily_before[from_date].data_available = "true"
       IN  \E outcome \in FreshOutcomes :
             LET daily_data == IF skip THEN daily_before
                               ELSE DictSet(daily_before, from_date, FreshEntry_of(outcome))
                 hist_cpi_score == IF name \in DOMAIN historical_cpi
                                   THEN historical_cpi[name].score ELSE None
                 hist_gpi_score == IF name \in DOMAIN historical_gpi
                                   THEN historical_gpi[name].score ELSE None
                 hist_corruption == IF hist_cpi_score # None
                                    THEN RSub(RInt(100), hist_cpi_score) ELSE None
                 hist_tension == hist_gpi_score
             IN  /\ fresh_fetched' = IF ~skip /\ has_fresh_data_source
                                     THEN fresh_fetched \cup {code} ELSE fresh_fetched
                 /\ IF ~known
                    THEN /\ eud_raised' = [type |-> "KeyError"]
                         /\ eud_pc' = "raised"
                         /\ UNCHANGED <<all_data, eud_idx>>
                    ELSE /\ all_data' =
                              DictSet(all_data, code,
                                  [daily_data |-> daily_data,
                                   historical |-> [corruption_index |-> hist_corruption,
                                                   tension_index |-> hist_tension],
                                   eudaimonia_predictor |->
                                       Predictor(daily_data, hist_corruption, hist_tension),
                                   data_source |->
                                       IF has_fresh_data_source
                                       THEN "Media Cloud/NewsAPI (fresh) + CPI/GPI (historical)"
                                       ELSE "CPI/GPI (historical only)"])
                         /\ eud_idx' = eud_idx + 1
                         /\ UNCHANGED <<eud_raised, eud_pc>>
    /\ UNCHANGED <<eud_country_codes, has_fresh_data_source, historical_cpi, historical_gpi,
                   existing_results, output_file>>
    /\ UNCHANGED outsideEud

\* _clean_old_data, lines 249-258
clean_old_data(data) ==
    [code \in DOMAIN data |->
        [data[code] EXCEPT !.daily_data =
            [d \in {x \in DOMAIN data[code].daily_data : x >= 0 - KeepDays} |->
                data[code].daily_data[d]]]]

\* lines 369-388: old entries are dropped and the file is written
EudSave ==
    /\ eud_pc = "loop"
    /\ eud_idx > Len(eud_country_codes)
    /\ all_data' = clean_old_data(all_data)
    /\ output_file' = [results |-> all_data']
    /\ eud_pc' = "saved"
    /\ UNCHANGED <<eud_country_codes, has_fresh_data_source, historical_cpi, historical_gpi,
                   existing_results, eud_idx, fresh_fetched, eud_raised>>
    /\ UNCHANGED outsideEud

EudNext == EudLoad \/ EudProcessCountry \/ EudSave

SpecEudaimonia == EudInit /\ [][EudNext]_vars

\* C36 (as stated): the run ends by writing the output file, without an
\* exception, with an entry (daily_data, historical indices, predictor within
\* [0,100]) for every code of its list, also for a code the existing file has
\* no record of; a code whose stored entry for the asked day has data is not
\* fetched again and keeps that entry.
C36_EveryCountryGetsEntry ==
    /\ eud_raised = None
    /\ eud_pc = "saved" =>
          \A i \in 1..Len(eud_country_codes) :
              LET code == eud_country_codes[i]
              IN  /\ code \in DOMAIN output_file.results
                  /\ from_date \in DOMAIN output_file.results[code].daily_data
                  /\ RGe(output_file.results[code].eudaimonia_predictor, Zero)
                  /\ RLe(output_file.results[code].eudaimonia_predictor, RInt(100))
    /\ \A code \in DOMAIN existing_results :
          (/\ from_date \in DOMAIN existing_results[code].daily_data
           /\ existing_results[code].daily_data[from_date].data_available = "true")
              => /\ code \notin fresh_fetched
                 /\ eud_pc # "start" =>
                       all_data[code].daily_data[from_date]
                           = existing_results[code].daily_data[from_date]

====
